---- MODULE Spec2Model ----
(***************************************************************************)
(* brennivin.functoolsext.lru_cache: the decorator's closure state (cache, *)
(* stats, lock, the circular doubly linked list behind nonlocal_root) and  *)
(* the three wrappers (maxsize == 0, maxsize is None, bounded), cache_info *)
(* and cache_clear, run by several threads.  A thread is a stack of call   *)
(* frames: a key whose __eq__ calls the cached function again (DoubleEq in *)
(* tests/test_functoolsext.py) pushes a nested wrapper frame from inside a *)
(* dict lookup.                                                            *)
(***************************************************************************)
EXTENDS Integers, Sequences, FiniteSets, TLC

\* ---- bounds of the model
NumThreads == 2
NumKeys == 3
MaxMaxsize == 2
MaxOps == 2
MaxOpsSeq == 4

\* ---- values
None == -1
Threads == 1..NumThreads
MainThread == 1
Keys == 1..NumKeys
\* DoubleEq.__eq__: "if self.x == 2: test_func(DoubleEq(1))"
EqKey == 2
EqInner == 1
Maxsizes == {None} \cup (0..MaxMaxsize)

VARIABLES
    maxsize,        \* lru_cache(maxsize): None, 0 or a positive integer
    cache,          \* dict: key -> result (maxsize None) or key -> link (bounded)
    stats,          \* [HITS, MISSES]
    lock,           \* _RLock(): owner thread (None when free) and recursion count
    links,          \* the list objects [PREV, NEXT, KEY, RESULT], by identity
    nonlocal_root,  \* nonlocal_root[0]: identity of the current root link
    stack,          \* per thread: the frames of the calls in progress, innermost last
    hist,           \* observation: one record per finished call, in order of finishing
    budget,         \* operations the threads may still start
    typed,          \* lru_cache(typed): whether the argument types go into the key
    cmp_a,          \* pyobjcomparer: the first value handed to compare / get_compound_diff
    cmp_b,          \* pyobjcomparer: the second value
    cmp_out,        \* pyobjcomparer: what the call returned or raised
    memo_made,      \* threadutils.memoize: what memoize(...) returned or raised
    memo_cache,     \* memoize: cache = [], the list holding the one cached value
    memo_lock,      \* memoize: lock = threading.Lock(), its owner (None when free)
    memo_pc,        \* memoize: per thread, where its call of the wrapper stands
    memo_val,       \* memoize: per thread, the value its call computed or returned
    memo_li,        \* memoize: how often the decorated body returned and raised (li in the tests)
    retry_self,     \* ioutils.retry: the decorator object (attempts, wait, backoff)
    attemptsLeft,   \* retry.__call__: attemptsLeft[0]
    currDelay,      \* retry.__call__: currDelay[0]
    retry_pc,       \* retry: where the caller of the decorated function stands
    retry_res,      \* retry: what each invocation of func did during the current call
    tree_children,  \* itertoolsext: the tree walked, node -> getchildren(node)
    tree_yieldnode, \* treeyield_breadthfirst(..., yieldnode=...)
    tree_out,       \* the nodes the generator has yielded so far
    finished,       \* threadutils.TimerExt: self.finished, the Event's flag
    _restartRequested,  \* TimerExt: self._restartRequested
    _lock,          \* TimerExt: self._lock, its owner (None when free)
    run_pc,         \* TimerExt: where the timer thread stands in run()
    deadline,       \* TimerExt: when the current finished.wait(interval) times out
    now,            \* the clock
    caller_pc,      \* TimerExt: per thread, where its restart() or cancel() stands
    timer_obs       \* observation: when the function fired, the latest restart, the cancels

\* the state of pyobjcomparer's caller
cmpVars == <<cmp_a, cmp_b, cmp_out>>

\* the state of one decorated function and its callers
lruVars == <<maxsize, typed, cache, stats, lock, links, nonlocal_root, stack, hist, budget>>

\* the decorated function's closure without the callers' budget
closureVars == <<maxsize, typed, cache, stats, lock, links, nonlocal_root, stack, hist>>

\* the state of one threadutils.memoize wrapper and its callers
memoVars == <<memo_made, memo_cache, memo_lock, memo_pc, memo_val, memo_li>>

\* the state of one ioutils.retry decorated function and its caller
retryVars == <<retry_self, attemptsLeft, currDelay, retry_pc, retry_res>>

\* the state of one treeyield_breadthfirst generator and its consumer
treeVars == <<tree_children, tree_yieldnode, tree_out>>

\* the state of one TimerExt, its thread and the threads that call it
timerVars == <<finished, _restartRequested, _lock, run_pc, deadline, now, caller_pc, timer_obs>>

\* the state of the other utilities
utilVars == <<memoVars, retryVars, treeVars, timerVars>>

vars == <<lruVars, cmpVars, utilVars>>

\* ---- helpers on the closure state

\* len(cache)
Len_cache == Cardinality(DOMAIN cache)

\* root[:] = [root, root, None, None]
SelfLink(r) == [PREV |-> r, NEXT |-> r, KEY |-> None, RESULT |-> None]

\* a new list object: an identity no live link has
NewLink(L) == CHOOSE i \in 0..Cardinality(DOMAIN L) : i \notin DOMAIN L

\* the test functions: "return x * 10"; the result object also carries the
\* identity of the invocation that built it (the computing thread)
user_function(k, t) == k * 10 + t

\* cache[key] = value
DictSet(d, k, v) == [x \in (DOMAIN d) \cup {k} |-> IF x = k THEN v ELSE d[x]]

\* del cache[key]
DictDel(d, k) == [x \in (DOMAIN d) \ {k} |-> d[x]]

\* (mutant) a plain Lock: no reentry
CanAcquire_plainLock(t) == lock.owner = None

\* with lock: __enter__ is possible for the owner (reentrant) or when free
CanAcquire(t) == lock.owner \in {None, t}

Acquired(t) == [owner |-> t, count |-> lock.count + 1]

\* (mutant) the lock is never given back
Released_never(n) == lock

\* with lock: __exit__, n levels at once when an exception unwinds n frames
Released(n) ==
    IF lock.count - n <= 0
    THEN [owner |-> None, count |-> 0]
    ELSE [owner |-> lock.owner, count |-> lock.count - n]

\* ---- frames

Frame(op, pc, key, eq) ==
    [op |-> op, pc |-> pc, key |-> key, eq |-> eq,
     result |-> None, root |-> None, tmp |-> None, h |-> None, m |-> None,
     hit |-> FALSE, ran |-> FALSE, args |-> <<>>, kwds |-> <<>>, at |-> 0, acc |-> None]

Depth(t) == Len(stack[t])
Idle(t) == stack[t] = <<>>
Top(t) == stack[t][Len(stack[t])]
At(t, pcs) == ~Idle(t) /\ Top(t).pc \in pcs

\* the pcs inside a "with lock:" block
LockedPcs == {"b_get", "b_got", "b_pub", "b_pub2",
              "i_hits", "i_misses", "i_len", "c_cache", "c_root", "c_stats"}

SetTop(t, f) == [stack EXCEPT ![t] = [@ EXCEPT ![Len(@)] = f]]
Popped(t) == [stack EXCEPT ![t] = SubSeq(@, 1, Len(@) - 1)]

\* the result the cache c (with links L) holds for key k, None when it holds none
StoredFor(c, L, k) ==
    IF k \notin DOMAIN c THEN None
    ELSE IF maxsize = None THEN c[k] ELSE L[c[k]].RESULT

\* one finished call of frame f at depth d: whether it returned (ok) and what
\* (ret), whether it found its key (hit) and called user_function (ran), and,
\* as the call ends, the counters st, len(cache), whether its key is cached and
\* with which result
Rec(t, d, f, ok, ret, st, c, L) ==
    [t |-> t, op |-> f.op, key |-> f.key, args |-> f.args, kwds |-> f.kwds,
     depth |-> d, hit |-> f.hit,
     ran |-> f.ran, ok |-> ok, ret |-> ret,
     cached |-> f.key \in DOMAIN c, cur |-> StoredFor(c, L, f.key),
     h1 |-> st.HITS, m1 |-> st.MISSES, s1 |-> Cardinality(DOMAIN c)]

\* the first statement of the wrapper that lru_cache picked for this maxsize
FirstPc == IF maxsize = 0 THEN "z_user" ELSE IF maxsize = None THEN "n_get" ELSE "b_acq1"

\* ---- the initial state: decorating_function has just returned the wrapper

\* nothing has been handed to pyobjcomparer
CmpIdle == cmp_a = None /\ cmp_b = None /\ cmp_out = None

\* memoize has not been called
MemoIdle ==
    /\ memo_made = [func |-> "None", useLock |-> FALSE, out |-> "not called"]
    /\ memo_cache = <<>>
    /\ memo_lock = None
    /\ memo_pc = [t \in Threads |-> "idle"]
    /\ memo_val = [t \in Threads |-> None]
    /\ memo_li = [returned |-> 0, raised |-> 0]

\* retry has not been constructed
RetryIdle ==
    /\ retry_self = [attempts |-> 0, wait |-> 0, backoff |-> 0, made |-> "not called"]
    /\ attemptsLeft = 0
    /\ currDelay = 0
    /\ retry_pc = "idle"
    /\ retry_res = <<>>

\* no tree is being walked
TreeIdle ==
    /\ tree_children = <<>>
    /\ tree_yieldnode = FALSE
    /\ tree_out = <<>>

\* TimerExt.__init__ (lines 263-271) has returned, start() was not called yet
TimerIdle ==
    /\ finished = FALSE
    /\ _restartRequested = FALSE
    /\ _lock = None
    /\ run_pc = "initial"
    /\ deadline = 0
    /\ now = 0
    /\ caller_pc = [t \in Threads |-> "idle"]
    /\ timer_obs = [fired |-> 0, fired_at |-> None, started_at |-> None, restart_at |-> None,
                    raised |-> 0, cancelled |-> FALSE, cancel_live |-> FALSE,
                    cancel_clean |-> FALSE]

\* none of the other utilities is in use
UtilIdle == MemoIdle /\ RetryIdle /\ TreeIdle /\ TimerIdle

\* cache, stats, lock, root as decorating_function builds them
InitDecorated ==
    /\ cache = <<>>
    /\ stats = [HITS |-> 0, MISSES |-> 0]
    /\ lock = [owner |-> None, count |-> 0]
    /\ links = [i \in {0} |-> SelfLink(0)]
    /\ nonlocal_root = 0
    /\ stack = [t \in Threads |-> <<>>]
    /\ hist = <<>>

InitClosure ==
    /\ maxsize \in Maxsizes
    /\ typed = FALSE
    /\ InitDecorated
    /\ CmpIdle
    /\ UtilIdle

Init == InitClosure /\ budget = MaxOps

InitSeq == InitClosure /\ budget = MaxOpsSeq

\* ---- a thread starts an operation

\* f(key): the caller passes either a plain argument or (eq) a fresh DoubleEq(2),
\* whose comparison with the stored equal key runs DoubleEq.__eq__
Call(t) ==
    /\ Idle(t)
    /\ budget > 0
    /\ \E k \in Keys, eq \in BOOLEAN :
        /\ eq => k = EqKey
        /\ stack' = [stack EXCEPT ![t] = <<Frame("wrapper", FirstPc, k, eq)>>]
    /\ budget' = budget - 1
    /\ UNCHANGED <<utilVars, cmpVars, typed, maxsize, cache, stats, lock, links, nonlocal_root, hist>>

CallInfo(t) ==
    /\ Idle(t)
    /\ budget > 0
    /\ stack' = [stack EXCEPT ![t] = <<Frame("cache_info", "i_acq", None, FALSE)>>]
    /\ budget' = budget - 1
    /\ UNCHANGED <<utilVars, cmpVars, typed, maxsize, cache, stats, lock, links, nonlocal_root, hist>>

CallClear(t) ==
    /\ Idle(t)
    /\ budget > 0
    /\ stack' = [stack EXCEPT ![t] = <<Frame("cache_clear", "c_acq", None, FALSE)>>]
    /\ budget' = budget - 1
    /\ UNCHANGED <<utilVars, cmpVars, typed, maxsize, cache, stats, lock, links, nonlocal_root, hist>>

\* ---- "with lock:" entered (lines 128, 143, 174, 181)

AfterAcquire(pc) ==
    CASE pc = "b_acq1" -> "b_get"
      [] pc = "b_acq2" -> "b_pub"
      [] pc = "i_acq" -> "i_hits"
      [] pc = "c_acq" -> "c_cache"

Acquire(t) ==
    /\ At(t, {"b_acq1", "b_acq2", "i_acq", "c_acq"})
    /\ CanAcquire(t)
    /\ lock' = Acquired(t)
    /\ stack' = SetTop(t, [Top(t) EXCEPT !.pc = AfterAcquire(@)])
    /\ UNCHANGED <<utilVars, cmpVars, typed, maxsize, cache, stats, links, nonlocal_root, hist, budget>>

\* ---- a dict operation on the key compares it with the stored equal key

\* the comparison runs DoubleEq.__eq__ when the argument is a DoubleEq(2) and the
\* dict holds an equal key
EqRuns(f) == f.eq /\ f.key \in DOMAIN cache

AfterEq(pc) ==
    CASE pc = "n_get" -> "n_got"
      [] pc = "n_store" -> "n_store2"
      [] pc = "b_get" -> "b_got"
      [] pc = "b_pub" -> "b_pub2"

\* __eq__ calls test_func(DoubleEq(1)): a nested wrapper call on this thread.
\* At line 145 the local root was read (line 144) before the comparison.
EqReenter(t) ==
    /\ At(t, {"n_get", "n_store", "b_get", "b_pub"})
    /\ EqRuns(Top(t))
    /\ LET f == Top(t)
           outer == [f EXCEPT !.pc = AfterEq(@),
                              !.root = IF f.pc = "b_pub" THEN nonlocal_root ELSE @]
       IN stack' = [stack EXCEPT ![t] =
                      Append([@ EXCEPT ![Len(@)] = outer],
                             Frame("wrapper", FirstPc, EqInner, FALSE))]
    /\ UNCHANGED <<utilVars, cmpVars, typed, maxsize, cache, stats, lock, links, nonlocal_root, hist, budget>>

\* the dict operation at pc0 completes: at once when no __eq__ runs, or (pc1)
\* after the nested call has returned
Looked(t, pc0, pc1) ==
    /\ At(t, {pc0, pc1})
    /\ Top(t).pc = pc0 => ~EqRuns(Top(t))

\* ---- return and raise

\* the top frame returns ret to its caller
Return(t, f, ret, st, c, L) ==
    /\ stack' = Popped(t)
    /\ hist' = Append(hist, Rec(t, Depth(t), f, TRUE, ret, st, c, L))

HeldLevels(s) == Cardinality({i \in DOMAIN s : s[i].pc \in LockedPcs})

\* an exception leaves the top frame: it propagates through __eq__ and the dict
\* operation of every enclosing frame, each "with lock:" on the way releasing
Unwind(t, top, st, c, L) ==
    LET s == [stack[t] EXCEPT ![Len(stack[t])] = top]
    IN /\ stack' = [stack EXCEPT ![t] = <<>>]
       /\ hist' = hist \o [i \in 1..Len(s) |->
                    Rec(t, Len(s) + 1 - i, s[Len(s) + 1 - i], FALSE, None, st, c, L)]
       /\ lock' = IF HeldLevels(s) > 0 THEN Released(HeldLevels(s)) ELSE lock

\* ---- user_function(*args, **kwds) (lines 103, 117, 142), called by the top frame

AfterUser(pc) ==
    CASE pc = "z_user" -> "z_read"
      [] pc = "n_user" -> "n_store"
      [] pc = "b_user" -> "b_acq2"

UserReturns(t) ==
    /\ At(t, {"z_user", "n_user", "b_user"})
    /\ LET f == Top(t)
       IN stack' = SetTop(t, [f EXCEPT !.pc = AfterUser(@), !.ran = TRUE,
                                       !.result = user_function(f.key, t)])
    /\ UNCHANGED <<utilVars, cmpVars, typed, maxsize, cache, stats, lock, links, nonlocal_root, hist, budget>>

\* (mutant) the failed call leaves an entry for its key behind
UserRaises_cached(t) ==
    /\ At(t, {"z_user", "n_user", "b_user"})
    /\ maxsize = None
    /\ cache' = DictSet(cache, Top(t).key, None)
    /\ Unwind(t, [Top(t) EXCEPT !.ran = TRUE], stats, cache', links)
    /\ UNCHANGED <<utilVars, cmpVars, typed, maxsize, stats, links, nonlocal_root, budget>>

UserRaises(t) ==
    /\ At(t, {"z_user", "n_user", "b_user"})
    /\ Unwind(t, [Top(t) EXCEPT !.ran = TRUE], stats, cache, links)
    /\ UNCHANGED <<utilVars, cmpVars, typed, maxsize, cache, stats, links, nonlocal_root, budget>>

\* ---- stats[i] += 1 outside the lock (lines 104, 115, 119): a load, then a store

\* (mutant) the wrong field of stats
StatsField_hits(pc) == "HITS"

\* HITS, MISSES = 0, 1
StatsField(pc) == IF pc \in {"n_hread", "n_hwrite"} THEN "HITS" ELSE "MISSES"

AfterRead(pc) ==
    CASE pc = "z_read" -> "z_write"
      [] pc = "n_hread" -> "n_hwrite"
      [] pc = "n_mread" -> "n_mwrite"

StatsLoad(t) ==
    /\ At(t, {"z_read", "n_hread", "n_mread"})
    /\ LET f == Top(t)
       IN stack' = SetTop(t, [f EXCEPT !.pc = AfterRead(@),
                                       !.tmp = stats[StatsField(f.pc)]])
    /\ UNCHANGED <<utilVars, cmpVars, typed, maxsize, cache, stats, lock, links, nonlocal_root, hist, budget>>

\* the store, then "return result"
StatsStore(t) ==
    /\ At(t, {"z_write", "n_hwrite", "n_mwrite"})
    /\ LET f == Top(t)
           st == [stats EXCEPT ![StatsField(f.pc)] = f.tmp + 1]
       IN /\ stats' = st
          /\ Return(t, f, f.result, st, cache, links)
    /\ UNCHANGED <<utilVars, cmpVars, typed, maxsize, cache, lock, links, nonlocal_root, budget>>

\* ---- the wrapper for maxsize is None (lines 109-120)

\* result = cache_get(key, root); if result is not root: ...
NGet(t) ==
    /\ Looked(t, "n_get", "n_got")
    /\ LET f == Top(t)
       IN IF f.key \in DOMAIN cache
          THEN stack' = SetTop(t, [f EXCEPT !.pc = "n_hread", !.hit = TRUE,
                                            !.result = cache[f.key]])
          ELSE stack' = SetTop(t, [f EXCEPT !.pc = "n_user"])
    /\ UNCHANGED <<utilVars, cmpVars, typed, maxsize, cache, stats, lock, links, nonlocal_root, hist, budget>>

\* cache[key] = result
NStore(t) ==
    /\ Looked(t, "n_store", "n_store2")
    /\ LET f == Top(t)
       IN /\ cache' = DictSet(cache, f.key, f.result)
          /\ stack' = SetTop(t, [f EXCEPT !.pc = "n_mread"])
    /\ UNCHANGED <<utilVars, cmpVars, typed, maxsize, stats, lock, links, nonlocal_root, hist, budget>>

\* ---- the bounded wrapper (lines 125-170)

\* (mutant) a hit leaves the link where it is
MoveToFront_stays(L, root, link) == L

\* lines 133-139: unlink the link and put it in front of the root, most recent
MoveToFront(L, root, link) ==
    LET link_prev == L[link].PREV
        link_next == L[link].NEXT
        L1 == [L EXCEPT ![link_prev].NEXT = link_next]
        L2 == [L1 EXCEPT ![link_next].PREV = link_prev]
        last == L2[root].PREV
        L3 == [L2 EXCEPT ![last].NEXT = link]
        L4 == [L3 EXCEPT ![root].PREV = link]
        L5 == [L4 EXCEPT ![link].PREV = last]
    IN [L5 EXCEPT ![link].NEXT = root]

\* (mutant) off by one: evicts only once the cache is over its size
Full_over == Len_cache > maxsize

\* line 151: elif _len(cache) >= maxsize
Full == Len_cache >= maxsize

\* lines 153-155: use the old root to store the new key and result
StoreInOldRoot(L, oldroot, key, result) ==
    [L EXCEPT ![oldroot].KEY = key, ![oldroot].RESULT = result]

\* line 160: root[KEY] = root[RESULT] = None
EmptyLink(L, root) == [L EXCEPT ![root].KEY = None, ![root].RESULT = None]

\* lines 166-168: a new link between the last link and the root
AppendLink(L, root, link, key, result) ==
    LET last == L[root].PREV
        L1 == [i \in (DOMAIN L) \cup {link} |->
                 IF i = link
                 THEN [PREV |-> last, NEXT |-> root, KEY |-> key, RESULT |-> result]
                 ELSE L[i]]
        L2 == [L1 EXCEPT ![last].NEXT = link]
    IN [L2 EXCEPT ![root].PREV = link]

\* (mutant) a hit counted as a miss
CountHit_asMiss(st) == [st EXCEPT !.MISSES = @ + 1]

\* line 140: stats[HITS] += 1, under the lock
CountHit(st) == [st EXCEPT !.HITS = @ + 1]

\* (mutant) the miss is not counted
CountMiss_dropped(st) == st

\* (mutant) the caller that finds its key present is counted as a hit
CountMiss_asHit(st) == [st EXCEPT !.HITS = @ + 1]

\* line 169: stats[MISSES] += 1, under the lock
CountMiss(st) == [st EXCEPT !.MISSES = @ + 1]

\* lines 129-141, inside the first "with lock:": on a hit the link moves to the
\* front, HITS is counted and the stored result returned; on a miss the lock is
\* released and the wrapper goes on to call user_function
BGet(t) ==
    /\ Looked(t, "b_get", "b_got")
    /\ LET f == Top(t)
       IN IF f.key \in DOMAIN cache
          THEN LET link == cache[f.key]
                   result == links[link].RESULT
                   L1 == MoveToFront(links, nonlocal_root, link)
                   st == CountHit(stats)
               IN /\ links' = L1
                  /\ stats' = st
                  /\ Return(t, [f EXCEPT !.hit = TRUE], result, st, cache, L1)
          ELSE /\ stack' = SetTop(t, [f EXCEPT !.pc = "b_user"])
               /\ UNCHANGED <<links, stats, hist>>
    /\ lock' = Released(1)
    /\ UNCHANGED <<utilVars, cmpVars, typed, maxsize, cache, nonlocal_root, budget>>

\* lines 144-170, inside the second "with lock:".  root is the local read at line
\* 144: the root of now, or (b_pub2) the root as it was before __eq__ ran.
BPublish(t) ==
    /\ Looked(t, "b_pub", "b_pub2")
    /\ LET f == Top(t)
           root == IF f.pc = "b_pub" THEN nonlocal_root ELSE f.root
           st == CountMiss(stats)
       IN IF f.key \in DOMAIN cache
          THEN \* the same key was added while the lock was released
               /\ stats' = st
               /\ lock' = Released(1)
               /\ Return(t, f, f.result, st, cache, links)
               /\ UNCHANGED <<cache, links, nonlocal_root>>
          ELSE IF Full
          THEN LET oldroot == root
                   L1 == StoreInOldRoot(links, oldroot, f.key, f.result)
                   newroot == L1[oldroot].NEXT
                   oldkey == L1[newroot].KEY
                   L2 == EmptyLink(L1, newroot)
                   c1 == DictSet(DictDel(cache, oldkey), f.key, oldroot)
               IN /\ links' = L2
                  /\ nonlocal_root' = newroot
                  /\ IF oldkey \in DOMAIN cache
                     THEN /\ cache' = c1
                          /\ stats' = st
                          /\ lock' = Released(1)
                          /\ Return(t, f, f.result, st, c1, L2)
                     ELSE \* del cache[oldkey] raises KeyError
                          /\ Unwind(t, f, stats, cache, L2)
                          /\ UNCHANGED <<cache, stats>>
          ELSE LET link == NewLink(links)
                   L1 == AppendLink(links, root, link, f.key, f.result)
                   c1 == DictSet(cache, f.key, link)
               IN /\ links' = L1
                  /\ cache' = c1
                  /\ stats' = st
                  /\ lock' = Released(1)
                  /\ Return(t, f, f.result, st, c1, L1)
                  /\ UNCHANGED nonlocal_root
    /\ UNCHANGED <<utilVars, cmpVars, typed, maxsize, budget>>

\* ---- cache_info (lines 172-176): the arguments of _CacheInfo, left to right

InfoHits(t) ==
    /\ At(t, {"i_hits"})
    /\ stack' = SetTop(t, [Top(t) EXCEPT !.pc = "i_misses", !.h = stats.HITS])
    /\ UNCHANGED <<utilVars, cmpVars, typed, maxsize, cache, stats, lock, links, nonlocal_root, hist, budget>>

InfoMisses(t) ==
    /\ At(t, {"i_misses"})
    /\ stack' = SetTop(t, [Top(t) EXCEPT !.pc = "i_len", !.m = stats.MISSES])
    /\ UNCHANGED <<utilVars, cmpVars, typed, maxsize, cache, stats, lock, links, nonlocal_root, hist, budget>>

\* len(cache), then the lock is released and the tuple returned: the record's
\* h1, m1, s1 are the reported hits, misses, currsize
InfoLen(t) ==
    /\ At(t, {"i_len"})
    /\ LET f == Top(t)
       IN Return(t, f, None, [HITS |-> f.h, MISSES |-> f.m], cache, links)
    /\ lock' = Released(1)
    /\ UNCHANGED <<utilVars, cmpVars, typed, maxsize, cache, stats, links, nonlocal_root, budget>>

\* ---- cache_clear (lines 179-185)

\* cache.clear()
ClearCache(t) ==
    /\ At(t, {"c_cache"})
    /\ cache' = <<>>
    /\ stack' = SetTop(t, [Top(t) EXCEPT !.pc = "c_root"])
    /\ UNCHANGED <<utilVars, cmpVars, typed, maxsize, stats, lock, links, nonlocal_root, hist, budget>>

\* root = nonlocal_root[0]; root[:] = [root, root, None, None]: the other links
\* are garbage from here on
ClearRoot(t) ==
    /\ At(t, {"c_root"})
    /\ links' = [i \in {nonlocal_root} |-> SelfLink(nonlocal_root)]
    /\ stack' = SetTop(t, [Top(t) EXCEPT !.pc = "c_stats"])
    /\ UNCHANGED <<utilVars, cmpVars, typed, maxsize, cache, stats, lock, nonlocal_root, hist, budget>>

\* stats[:] = [0, 0], then the lock is released: the record's h1, m1, s1 are
\* the counters and len(cache) at that moment
ClearStats(t) ==
    /\ At(t, {"c_stats"})
    /\ LET st == [HITS |-> 0, MISSES |-> 0]
       IN /\ stats' = st
          /\ Return(t, Top(t), None, st, cache, links)
    /\ lock' = Released(1)
    /\ UNCHANGED <<utilVars, cmpVars, typed, maxsize, cache, links, nonlocal_root, budget>>

\* ---- the specifications

Step(t) ==
    \/ Call(t)
    \/ CallInfo(t)
    \/ CallClear(t)
    \/ Acquire(t)
    \/ EqReenter(t)
    \/ UserReturns(t)
    \/ UserRaises(t)
    \/ StatsLoad(t)
    \/ StatsStore(t)
    \/ NGet(t)
    \/ NStore(t)
    \/ BGet(t)
    \/ BPublish(t)
    \/ InfoHits(t)
    \/ InfoMisses(t)
    \/ InfoLen(t)
    \/ ClearCache(t)
    \/ ClearRoot(t)
    \/ ClearStats(t)

\* any number of threads
Next == \E t \in Threads : Step(t)

Spec == Init /\ [][Next]_vars

\* single-threaded use
NextSeq == Step(MainThread)

SpecSeq == InitSeq /\ [][NextSeq]_vars

\* fair scheduling: a thread that can run does, and a thread that can take the
\* lock again and again gets it; user_function returns or raises
Fairness == \A t \in Threads : WF_vars(Step(t)) /\ SF_vars(Acquire(t))

FairSpec == Spec /\ Fairness

\* ---- sanity of the model itself

TypeOK ==
    /\ maxsize \in Maxsizes
    /\ DOMAIN cache \subseteq Keys
    /\ stats.HITS \in Nat /\ stats.MISSES \in Nat
    /\ lock.owner \in Threads \cup {None}
    /\ lock.count = (IF lock.owner = None THEN 0 ELSE HeldLevels(stack[lock.owner]))
    /\ \A t \in Threads : t # lock.owner => HeldLevels(stack[t]) = 0
    /\ \A t \in Threads : Len(stack[t]) <= 2
    /\ nonlocal_root \in DOMAIN links
    /\ budget \in 0..MaxOpsSeq

\* ---- reading the observation

LockFree == lock.owner = None

\* the records since construction or the last finished cache_clear()
LastClear ==
    LET cs == {i \in DOMAIN hist : hist[i].op = "cache_clear"}
    IN IF cs = {} THEN 0 ELSE CHOOSE i \in cs : \A j \in cs : j <= i

IsCall(r) == r.op = "wrapper"
SinceClear == {i \in DOMAIN hist : i > LastClear /\ IsCall(hist[i])}

\* the counters and len(cache) as record i's call found them (single-threaded:
\* as the record before left them)
Before(i) ==
    IF i = 1 THEN [h1 |-> 0, m1 |-> 0, s1 |-> 0] ELSE hist[i - 1]

\* the keys of seq's last n distinct elements
RECURSIVE LastDistinct(_, _)
LastDistinct(seq, n) ==
    IF n = 0 \/ seq = <<>> THEN {}
    ELSE LET k == seq[Len(seq)]
             NotK(x) == x # k
         IN {k} \cup LastDistinct(SelectSeq(seq, NotK), n - 1)

\* the keys accessed (hit or inserted) since the last clear, oldest first
IsAccess(r) == IsCall(r) /\ r.ok
AccessKeys ==
    LET recent == SubSeq(hist, LastClear + 1, Len(hist))
        acc == SelectSeq(recent, IsAccess)
    IN [i \in 1..Len(acc) |-> acc[i].key]

\* ---- the claims

\* C1: with a positive maxsize, under every interleaving of wrapper calls,
\* cache_info() and cache_clear(), the cache never holds more than maxsize entries
CurrsizeWithinMaxsize == maxsize > 0 => Len_cache <= maxsize

\* a full cache that two threads have published into, with more misses than room
CurrsizeWitness ==
    /\ maxsize > 0
    /\ Len_cache = maxsize
    /\ stats.MISSES > maxsize
    /\ \E i, j \in DOMAIN hist : hist[i].t # hist[j].t /\ hist[i].ran /\ hist[j].ran

\* C2: single-threaded, bounded: the cache holds exactly the maxsize most recently
\* accessed keys, so an insertion into a full cache evicts the key whose latest
\* access is the oldest; N+1 distinct keys leave N entries without the first; with
\* maxsize 2 the calls A, B, A, C leave {A, C}
EvictsLeastRecentlyUsed ==
    (maxsize > 0 /\ LockFree) =>
        /\ DOMAIN cache = LastDistinct(AccessKeys, maxsize)
        /\ (Len(AccessKeys) = maxsize + 1
            /\ Cardinality({AccessKeys[i] : i \in DOMAIN AccessKeys}) = maxsize + 1)
           => (Len_cache = maxsize /\ AccessKeys[1] \notin DOMAIN cache)
        /\ (maxsize = 2 /\ AccessKeys = <<1, 2, 1, 3>>) => DOMAIN cache = {1, 3}

\* the calls A, B, A, C on a cache of two have finished
LruWitness ==
    /\ maxsize = 2
    /\ LockFree
    /\ AccessKeys = <<1, 2, 1, 3>>
    /\ Len(hist) = 4
    /\ hist[3].hit

\* the earlier call whose result record i's hit found stored
StoredBy(i) ==
    LET js == {j \in 1..(i - 1) :
                 /\ IsCall(hist[j]) /\ hist[j].key = hist[i].key
                 /\ hist[j].ran /\ hist[j].ok}
    IN CHOOSE j \in js : \A k \in js : k <= j

ExceptionNotCached ==
    \A i \in DOMAIN hist :
        (IsCall(hist[i]) /\ hist[i].ran /\ ~hist[i].ok) =>
            /\ hist[i].ret = None
            /\ ~hist[i].cached
            /\ \A j \in DOMAIN hist :
                 (/\ j > i
                  /\ IsCall(hist[j]) /\ hist[j].key = hist[i].key
                  /\ \A k \in (i + 1)..(j - 1) : hist[k].key # hist[i].key)
                 => hist[j].ran

\* a call raised and the same call was made again, on a cache that caches
ExceptionWitness ==
    \E i \in DOMAIN hist :
        /\ IsCall(hist[i]) /\ hist[i].ran /\ ~hist[i].ok
        /\ maxsize # 0
        /\ i < Len(hist)
        /\ IsCall(hist[i + 1]) /\ hist[i + 1].key = hist[i].key /\ hist[i + 1].ok

\* C5: no thread holds the cache lock at the moment it calls user_function from
\* the bounded wrapper, calls nested in a key's __eq__ included
LockFreeAtUserCall ==
    \A t \in Threads : At(t, {"b_user"}) => lock.owner # t

\* C6: bounded, single-threaded: while a key's __eq__ has the cached function
\* called again on the same thread, that thread can always go on (no deadlock on
\* its own lock), and the outer call returns the result cached for its own key
ReentrantCallReturns ==
    maxsize > 0 =>
        /\ \A t \in Threads : Depth(t) = 2 => ENABLED Step(t)
        /\ \A i \in DOMAIN hist :
             (i > 1 /\ hist[i].depth = 1 /\ hist[i - 1].depth = 2 /\ hist[i].ok) =>
                 /\ hist[i].cached
                 /\ hist[i].ret = hist[i].cur
                 /\ hist[i].ret = user_function(hist[i].key, hist[i].t)

\* test_need_for_rlock: both keys loaded, then the call whose __eq__ calls again
ReentrantWitness ==
    /\ maxsize > 0
    /\ Len(hist) = 4
    /\ hist[1].key = EqInner /\ hist[2].key = EqKey
    /\ hist[3].depth = 2 /\ hist[3].hit
    /\ hist[4].depth = 1 /\ hist[4].hit /\ hist[4].key = EqKey

\* C7: no cache_info() result reports more entries than counted misses, for any
\* maxsize
InfoSnapshotConsistent ==
    \A i \in DOMAIN hist :
        hist[i].op = "cache_info" => hist[i].s1 <= hist[i].m1

\* C8: as cache_clear() ends, the cache is empty and both counters are zero, for
\* any maxsize and whatever the other threads do meanwhile
ClearIsAtomic ==
    \A i \in DOMAIN hist :
        hist[i].op = "cache_clear" =>
            hist[i].s1 = 0 /\ hist[i].h1 = 0 /\ hist[i].m1 = 0

\* C9: under fair scheduling every wrapper call, cache_info() and cache_clear() a
\* thread has started ends
EveryCallEnds == \A t \in Threads : (~Idle(t)) ~> Idle(t)

\* a thread waits for the lock another thread holds
WaitingWitness ==
    \E t \in Threads :
        /\ At(t, {"b_acq1", "b_acq2", "i_acq", "c_acq"})
        /\ lock.owner \notin {None, t}

\* C10: single-threaded, between calls: hits + misses is the number of calls that
\* returned since the last clear, misses the number of user_function calls that
\* returned, and a call that raised left both counters alone
CountersMatchCalls ==
    /\ Idle(MainThread) =>
        /\ stats.HITS + stats.MISSES
             = Cardinality({i \in SinceClear : hist[i].ok})
        /\ stats.MISSES
             = Cardinality({i \in SinceClear : hist[i].ran /\ hist[i].ok})
    /\ \A i \in DOMAIN hist :
         (IsCall(hist[i]) /\ ~hist[i].ok) =>
             hist[i].h1 = Before(i).h1 /\ hist[i].m1 = Before(i).m1

\* hits, misses and a raising call after a clear
CountersWitness ==
    /\ Idle(MainThread)
    /\ LastClear = 1
    /\ stats.HITS = 1 /\ stats.MISSES = 1
    /\ Len(hist) = 4
    /\ \E i \in SinceClear : ~hist[i].ok

\* ---- Python values: a type name, a number v, a text s, the items of a container

\* numbers are counted in fixed-point units of 0.00005: 1 is One units
One == 20000

PyValue(ty, v, s, items) == [ty |-> ty, v |-> v, s |-> s, items |-> items]

\* the int n and the float of u units
PyInt(n) == PyValue("int", n * One, "", <<>>)
PyFloat(u) == PyValue("float", u, "", <<>>)
PyStr(s) == PyValue("str", 0, s, <<>>)
PyTuple(items) == PyValue("tuple", 0, "", items)
PyList(items) == PyValue("list", 0, "", items)

\* type(x), a type object
PyType(x) == PyValue("type", 0, x.ty, <<>>)

IsNumber(x) == x.ty \in {"int", "float"}

\* x + y, x - y, x * y on numbers: int when both are
NumType(x, y) == IF x.ty = "int" /\ y.ty = "int" THEN "int" ELSE "float"
PyAdd(x, y) == PyValue(NumType(x, y), x.v + y.v, "", <<>>)
PySub(x, y) == PyValue(NumType(x, y), x.v - y.v, "", <<>>)
PyMul(x, y) ==
    PyValue(NumType(x, y),
            (x.v \div One) * y.v + ((x.v % One) * y.v) \div One, "", <<>>)

\* ---- _make_key (lines 38-57)

\* kwd_mark=(object(),)
kwd_mark == <<PyValue("object", 0, "kwd_mark", <<>>)>>

fasttypes == {"int", "str", "frozenset", "NoneType"}

_HashedSeq(tup) == PyValue("_HashedSeq", 0, "", tup)

\* the items (name, value) strung out: "for item in sorted_items: key += item"
RECURSIVE Flat(_)
Flat(items) ==
    IF items = <<>> THEN <<>> ELSE items[1] \o Flat(Tail(items))

\* (mutant) the types are left out of the key
_make_key_untyped(args, kwds, ty) ==
    LET key == args \o (IF kwds # <<>> THEN kwd_mark \o Flat(kwds) ELSE <<>>)
    IN IF Len(key) = 1 /\ key[1].ty \in fasttypes THEN key[1] ELSE _HashedSeq(key)

\* kwds is the sequence of its items (name, value); sorted(kwds.items()) leaves
\* the at most one item of the calls made here in place
_make_key(args, kwds, ty) ==
    LET sorted_items == kwds
        key1 == args \o (IF kwds # <<>> THEN kwd_mark \o Flat(sorted_items) ELSE <<>>)
        argtypes == [i \in DOMAIN args |-> PyType(args[i])]
        kwdtypes == [i \in DOMAIN sorted_items |-> PyType(sorted_items[i][2])]
    IN IF ty
       THEN _HashedSeq(key1 \o argtypes \o (IF kwds # <<>> THEN kwdtypes ELSE <<>>))
       ELSE IF Len(key1) = 1 /\ key1[1].ty \in fasttypes
       THEN key1[1]
       ELSE _HashedSeq(key1)

\* the key as the dict tells keys apart, by hash and ==: an int and a float of
\* the same value are one key, every other value is itself
RECURSIVE DictKey(_)
DictKey(x) ==
    IF IsNumber(x) THEN PyValue("number", x.v, "", <<>>)
    ELSE PyValue(x.ty, x.v, x.s, [i \in DOMAIN x.items |-> DictKey(x.items[i])])

\* (mutant) the keyword arguments are left out of the key
KeyFor_argsOnly(args, kwds) == DictKey(PyTuple(args))

\* lines 111 and 127: the key the wrapper looks up (the maxsize 0 wrapper has none)
KeyFor(args, kwds) ==
    IF maxsize = 0 THEN None
    ELSE IF maxsize = None \/ kwds # <<>> \/ typed
    THEN DictKey(_make_key(args, kwds, typed))
    ELSE DictKey(PyTuple(args))

\* wrapper(*args, **kwds) entered
CallFrame(args, kwds) ==
    [Frame("wrapper", FirstPc, KeyFor(args, kwds), FALSE)
        EXCEPT !.args = args, !.kwds = kwds]

\* the one parameter of the decorated function, bound from args or kwds
Param(f) == IF f.args # <<>> THEN f.args[1] ELSE f.kwds[1][2]

\* the same call form as frame f's: f(x) or f(name=x)
ArgsLike(f, x) == IF f.args # <<>> THEN <<x>> ELSE <<>>
KwdsLike(f, x) == IF f.args # <<>> THEN <<>> ELSE <<<<f.kwds[1][1], x>>>>

UserPcs == {"z_user", "n_user", "b_user"}

\* the value the call that has just ended returned
LastReturned == hist[Len(hist)].ret

\* ---- test_lru_with_maxsize_none, test_lru_with_keyword_args: memoized Fibonacci

\* [fib(n) for n in range(16)]
FibCalls == 16

\* lru_cache(maxsize=128, typed=False)
DefaultMaxsize == 128

InitFib ==
    /\ maxsize \in {None, DefaultMaxsize}
    /\ typed = FALSE
    /\ InitDecorated
    /\ CmpIdle
    /\ UtilIdle
    /\ budget = FibCalls

\* the test calls fib(n) or fib(n=n) for the next n of the range; every call of a
\* test has the form of its first one
FibTop(t) ==
    /\ Idle(t)
    /\ budget > 0
    /\ \E kw \in BOOLEAN :
        /\ hist # <<>> => kw = (hist[1].kwds # <<>>)
        /\ LET n == PyInt(FibCalls - budget)
           IN stack' = [stack EXCEPT ![t] =
                <<CallFrame(IF kw THEN <<>> ELSE <<n>>,
                            IF kw THEN <<<<PyStr("n"), n>>>> ELSE <<>>)>>]
    /\ budget' = budget - 1
    /\ UNCHANGED <<utilVars, cmpVars, typed, maxsize, cache, stats, lock, links, nonlocal_root, hist>>

\* if n < 2: return n
FibBase(t) ==
    /\ At(t, UserPcs)
    /\ LET f == Top(t)
       IN /\ Param(f).v < PyInt(2).v
          /\ stack' = SetTop(t, [f EXCEPT !.pc = AfterUser(@), !.ran = TRUE,
                                          !.result = Param(f)])
    /\ UNCHANGED <<utilVars, cmpVars, typed, maxsize, cache, stats, lock, links, nonlocal_root, hist, budget>>

\* the cached function called from inside its own body, in the caller's form
FibCall(t, f, x) ==
    stack' = [stack EXCEPT ![t] = Append([@ EXCEPT ![Len(@)] = f],
                                         CallFrame(ArgsLike(f, x), KwdsLike(f, x)))]

\* return fib(n - 1) + ...: the first call
FibFirst(t) ==
    /\ At(t, UserPcs)
    /\ LET f == Top(t)
       IN /\ Param(f).v >= PyInt(2).v
          /\ f.at = 0
          /\ FibCall(t, [f EXCEPT !.at = 1], PySub(Param(f), PyInt(1)))
    /\ UNCHANGED <<utilVars, cmpVars, typed, maxsize, cache, stats, lock, links, nonlocal_root, hist, budget>>

\* ... + fib(n - 2): the first call has returned, the second is made
FibSecond(t) ==
    /\ At(t, UserPcs)
    /\ LET f == Top(t)
       IN /\ f.at = 1
          /\ FibCall(t, [f EXCEPT !.at = 2, !.acc = LastReturned],
                     PySub(Param(f), PyInt(2)))
    /\ UNCHANGED <<utilVars, cmpVars, typed, maxsize, cache, stats, lock, links, nonlocal_root, hist, budget>>

\* the second call has returned: the sum is the result
FibSum(t) ==
    /\ At(t, UserPcs)
    /\ LET f == Top(t)
       IN /\ f.at = 2
          /\ stack' = SetTop(t, [f EXCEPT !.pc = AfterUser(@), !.ran = TRUE,
                                          !.result = PyAdd(f.acc, LastReturned)])
    /\ UNCHANGED <<utilVars, cmpVars, typed, maxsize, cache, stats, lock, links, nonlocal_root, hist, budget>>

\* the wrapper's own steps, for the maxsize None and the bounded wrapper
WrapperStep(t) ==
    \/ Acquire(t)
    \/ StatsLoad(t)
    \/ StatsStore(t)
    \/ NGet(t)
    \/ NStore(t)
    \/ BGet(t)
    \/ BPublish(t)

NextFib ==
    \/ FibTop(MainThread)
    \/ FibBase(MainThread)
    \/ FibFirst(MainThread)
    \/ FibSecond(MainThread)
    \/ FibSum(MainThread)
    \/ WrapperStep(MainThread)

SpecFib == InitFib /\ [][NextFib]_vars

\* ---- test_lru_with_types: square(3), square(3.0), square(x=3), square(x=3.0)

\* the eight calls of the test
TypedCalls == 8

\* the argument values of the test: 3 and 3.0
SquareArgs == {PyInt(3), PyFloat(3 * One)}

InitTyped ==
    /\ maxsize \in {None, DefaultMaxsize}
    /\ typed \in BOOLEAN
    /\ InitDecorated
    /\ CmpIdle
    /\ UtilIdle
    /\ budget = TypedCalls

\* square(x) or square(x=x)
SquareTop(t) ==
    /\ Idle(t)
    /\ budget > 0
    /\ \E x \in SquareArgs, kw \in BOOLEAN :
        stack' = [stack EXCEPT ![t] =
            <<CallFrame(IF kw THEN <<>> ELSE <<x>>,
                        IF kw THEN <<<<PyStr("x"), x>>>> ELSE <<>>)>>]
    /\ budget' = budget - 1
    /\ UNCHANGED <<utilVars, cmpVars, typed, maxsize, cache, stats, lock, links, nonlocal_root, hist>>

\* return x * x
SquareBody(t) ==
    /\ At(t, UserPcs)
    /\ LET f == Top(t)
       IN stack' = SetTop(t, [f EXCEPT !.pc = AfterUser(@), !.ran = TRUE,
                                       !.result = PyMul(Param(f), Param(f))])
    /\ UNCHANGED <<utilVars, cmpVars, typed, maxsize, cache, stats, lock, links, nonlocal_root, hist, budget>>

NextTyped ==
    \/ SquareTop(MainThread)
    \/ SquareBody(MainThread)
    \/ WrapperStep(MainThread)

SpecTyped == InitTyped /\ [][NextTyped]_vars

\* ---- f.__wrapped__ (line 187): user_function itself

\* (mutant) the direct call is counted as a miss
CallWrapped_counted(t) ==
    /\ Idle(t)
    /\ budget > 0
    /\ \E k \in Keys :
        hist' = Append(hist,
            Rec(t, 1, [Frame("__wrapped__", "w_user", k, FALSE) EXCEPT !.ran = TRUE],
                TRUE, user_function(k, t), stats, cache, links))
    /\ stats' = CountMiss(stats)
    /\ budget' = budget - 1
    /\ UNCHANGED <<utilVars, cmpVars, typed, maxsize, cache, lock, links, nonlocal_root, stack>>

\* f.__wrapped__(x): user_function runs and returns, no wrapper in between
CallWrapped(t) ==
    /\ Idle(t)
    /\ budget > 0
    /\ \E k \in Keys :
        hist' = Append(hist,
            Rec(t, 1, [Frame("__wrapped__", "w_user", k, FALSE) EXCEPT !.ran = TRUE],
                TRUE, user_function(k, t), stats, cache, links))
    /\ budget' = budget - 1
    /\ UNCHANGED <<utilVars, cmpVars, typed, maxsize, cache, stats, lock, links, nonlocal_root, stack>>

\* single-threaded use, the cache bypassed now and then
NextBypass ==
    \/ NextSeq
    \/ CallWrapped(MainThread)

\* wrapper calls, cache_info(), cache_clear() and direct calls, MaxOpsBypass in all
MaxOpsBypass == 3

InitBypass == InitClosure /\ budget = MaxOpsBypass

SpecBypass == InitBypass /\ [][NextBypass]_vars

\* ---- the claims on recursion, maxsize 0, typed keys and __wrapped__

\* the calls the test made itself, in order
TopCalls ==
    LET IsTop(r) == r.depth = 1
    IN SelectSeq(hist, IsTop)

\* [0, 1, 1, 2, 3, 5, 8, 13, 21, 34, 55, 89, 144, 233, 377, 610]
FibExpected == <<0, 1, 1, 2, 3, 5, 8, 13, 21, 34, 55, 89, 144, 233, 377, 610>>

\* C11: the memoized recursive Fibonacci, maxsize None or the default 128, called
\* positionally or by keyword: between the calls fib(0), fib(1), ... each n so far
\* cost one miss and one entry and, from fib(2) on, two hits; the values are the
\* Fibonacci numbers; after fib(0..15) hits=28, misses=16, currsize=16
FibCountsExact ==
    Idle(MainThread) =>
        LET n == FibCalls - budget
        IN /\ stats.MISSES = n
           /\ Len_cache = n
           /\ stats.HITS = (IF n < 2 THEN 0 ELSE 2 * (n - 2))
           /\ Len(TopCalls) = n
           /\ \A i \in 1..n : TopCalls[i].ok /\ TopCalls[i].ret = PyInt(FibExpected[i])
           /\ budget = 0 => (stats.HITS = 28 /\ stats.MISSES = 16 /\ Len_cache = 16)

\* all sixteen calls made by keyword on the default cache
FibWitness ==
    /\ Idle(MainThread)
    /\ budget = 0
    /\ maxsize = DefaultMaxsize
    /\ hist[1].kwds # <<>>
    /\ Len(hist) = 44

\* the last cache_clear() that ended before record i
LastClearBefore(i) ==
    LET cs == {j \in 1..(i - 1) : hist[j].op = "cache_clear"}
    IN IF cs = {} THEN 0 ELSE CHOOSE j \in cs : \A k \in cs : k <= j

\* the wrapper calls that returned between the last clear before i and i
ReturnedBefore(i) ==
    {j \in (LastClearBefore(i) + 1)..(i - 1) : IsCall(hist[j]) /\ hist[j].ok}

CallsMade == [i \in DOMAIN hist |-> [args |-> hist[i].args, kwds |-> hist[i].kwds]]

Positional(x) == [args |-> <<x>>, kwds |-> <<>>]
Keyword(x) == [args |-> <<>>, kwds |-> <<<<PyStr("x"), x>>>>]

\* square(3), square(3), square(3.0), square(3.0), square(x=3), square(x=3),
\* square(x=3.0), square(x=3.0)
TypedScript ==
    <<Positional(PyInt(3)), Positional(PyInt(3)),
      Positional(PyFloat(3 * One)), Positional(PyFloat(3 * One)),
      Keyword(PyInt(3)), Keyword(PyInt(3)),
      Keyword(PyFloat(3 * One)), Keyword(PyFloat(3 * One))>>

\* C13: typed=True, maxsize None or 128: a call is a hit exactly when the same
\* value of the same type was passed before in the same form (3 and 3.0, x and
\* x=x are different entries), its result has the type of its argument, and the
\* eight calls of the test give hits=4 and misses=4
TypedKeysDistinct ==
    typed =>
        /\ \A i \in DOMAIN hist :
             /\ hist[i].hit <=> (\E j \in 1..(i - 1) : CallsMade[j] = CallsMade[i])
             /\ hist[i].ret = PyMul(Param(hist[i]), Param(hist[i]))
             /\ hist[i].ret.ty = Param(hist[i]).ty
        /\ (Idle(MainThread) /\ CallsMade = TypedScript) =>
             (stats.HITS = 4 /\ stats.MISSES = 4)

\* the eight calls of the test have been made on a typed cache of 128
TypedWitness ==
    /\ typed
    /\ maxsize = DefaultMaxsize
    /\ Idle(MainThread)
    /\ CallsMade = TypedScript

\* C14: a call through f.__wrapped__ leaves the counters, the cached entries and
\* the recency list exactly as they were
BypassLeavesCache ==
    [][(Len(hist') > Len(hist) /\ hist'[Len(hist')].op = "__wrapped__") =>
          (/\ cache' = cache
           /\ stats' = stats
           /\ links' = links
           /\ nonlocal_root' = nonlocal_root)]_vars

\* a direct call on a cache that holds an entry and has counted a miss, and then
\* the same call through the wrapper, which finds nothing cached for it
BypassWitness ==
    \E i \in DOMAIN hist :
        /\ hist[i].op = "__wrapped__"
        /\ hist[i].s1 >= 1 /\ hist[i].m1 >= 1
        /\ ~hist[i].cached
        /\ i < Len(hist)
        /\ IsCall(hist[i + 1]) /\ hist[i + 1].key = hist[i].key /\ hist[i + 1].ran

\* ---- brennivin.pyobjcomparer: the values compared

\* the longest list, tuple, set or dict of plain values handed to the comparer
MaxLen == 2

\* TOLERANCE = 0.0001, in units of 0.00005
TOLERANCE == 2

PyNone == PyValue("NoneType", 0, "", <<>>)
PySet(items) == PyValue("set", 0, "", items)

\* class sphere(object), equal to another sphere of the same radius
sphere(radius) == PyValue("sphere", radius, "", <<>>)

\* a dict is the sequence of its items (key, value)
PyDict(items) == PyValue("dict", 0, "", items)
Item(key, val) == PyTuple(<<key, val>>)

\* a.keys(), a[key]
DictKeys(d) == [i \in DOMAIN d.items |-> d.items[i].items[1]]
DictGet(d, key) ==
    LET i == CHOOSE j \in DOMAIN d.items : d.items[j].items[1] = key
    IN d.items[i].items[2]

\* the elements of a finite set in some order (a set's or dict's iteration order)
RECURSIVE SetToSeq(_)
SetToSeq(S) ==
    IF S = {} THEN <<>>
    ELSE LET x == CHOOSE y \in S : TRUE IN <<x>> \o SetToSeq(S \ {x})

SeqsUpTo(S, n) == UNION {[1..k -> S] : k \in 0..n}
SubsetsUpTo(S, n) == {T \in SUBSET S : Cardinality(T) <= n}

Numbers ==
    {PyInt(0), PyInt(1),
     PyFloat(0), PyFloat(1), PyFloat(TOLERANCE), PyFloat(One), PyFloat(One + 1)}
Atoms == Numbers \cup {PyStr("a"), PyStr("b"), sphere(0), sphere(One), PyNone}

\* the plain values put into containers, and the values stored under dict keys
Elems == {PyInt(0), PyInt(1), PyFloat(1), PyStr("a")}
Leaves == {PyInt(0), PyInt(1)}

Lists1 == {PyList(q) : q \in SeqsUpTo(Elems, MaxLen)}
Tuples1 == {PyTuple(q) : q \in SeqsUpTo(Elems, MaxLen)}
Sets1 == {PySet(SetToSeq(T)) : T \in SubsetsUpTo(Elems, MaxLen)}
Dicts1 ==
    UNION {{PyDict([i \in 1..Cardinality(T) |-> Item(SetToSeq(T)[i], g[SetToSeq(T)[i]])])
              : g \in [T -> Leaves]}
           : T \in SubsetsUpTo(Elems, MaxLen)}

\* lists and dicts of lists and dicts, as in TestGetCompoundDiff
Inner ==
    {PyList(<<x>>) : x \in Leaves}
      \cup {PyList(<<x, y>>) : x \in Leaves, y \in Leaves}
      \cup {PyDict(<<Item(PyStr("a"), x)>>) : x \in Leaves}
Lists2 ==
    {PyList(<<x>>) : x \in Inner} \cup {PyList(<<x, y>>) : x \in Inner, y \in Inner}
Dicts2 ==
    {PyDict(<<Item(PyStr("a"), x)>>) : x \in Inner}
      \cup {PyDict(<<Item(PyStr("a"), x), Item(PyStr("b"), y)>>) : x \in Inner, y \in Inner}

\* [{'first': [{'second': 0}]}] (get_compound_diff's docstring)
Nested(x) ==
    PyList(<<PyDict(<<Item(PyStr("a"),
                           PyList(<<PyDict(<<Item(PyStr("b"), x)>>)>>))>>)>>)
Deep == {Nested(x) : x \in Leaves}

Values ==
    Atoms \cup Lists1 \cup Tuples1 \cup Sets1 \cup Dicts1 \cup Lists2 \cup Dicts2 \cup Deep

\* ---- brennivin.pyobjcomparer: the comparison

\* what a comparison function did: returned eq, or raised, and the breadcrumb
\* list as it left it
Outcome(eq, raised, breadcrumb) ==
    [eq |-> eq, raised |-> raised, breadcrumb |-> breadcrumb]

\* fmt % args, a str
Format(fmt, args) == PyValue("str", 0, fmt, args)

Abs(n) == IF n < 0 THEN -n ELSE n

\* (mutant) a list passes for a tuple and a tuple for a list
_check_type_sequences(b, type_, breadcrumb) ==
    IF b.ty # type_ /\ {b.ty, type_} # {"list", "tuple"}
    THEN Outcome(FALSE, FALSE,
                 Append(breadcrumb, Format("%s is not a %s", <<PyStr(b.ty), PyStr(type_)>>)))
    ELSE Outcome(TRUE, FALSE, breadcrumb)

\* lines 25-30
_check_type(b, type_, breadcrumb) ==
    IF b.ty # type_
    THEN Outcome(FALSE, FALSE,
                 Append(breadcrumb, Format("%s is not a %s", <<PyStr(b.ty), PyStr(type_)>>)))
    ELSE Outcome(TRUE, FALSE, breadcrumb)

\* a != b for a str, a sphere, None: equal only to the same text, a sphere of the
\* same radius, None
PyNe(a, b) == a # b

\* lines 33-37
_compare_default(a, b, breadcrumb) ==
    IF PyNe(a, b)
    THEN Outcome(FALSE, FALSE, Append(breadcrumb, Format("%r != %r", <<a, b>>)))
    ELSE Outcome(TRUE, FALSE, breadcrumb)

\* (mutant) a difference of exactly TOLERANCE still counts as equal
_compare_number_inclusive(a, b, breadcrumb) ==
    IF ~IsNumber(b) THEN Outcome(FALSE, TRUE, breadcrumb)
    ELSE IF Abs(a.v - b.v) > TOLERANCE
    THEN Outcome(FALSE, FALSE, Append(breadcrumb, Format("%r != %r", <<a, b>>)))
    ELSE Outcome(TRUE, FALSE, breadcrumb)

\* lines 40-44: a - b raises TypeError unless b is a number too
_compare_number(a, b, breadcrumb) ==
    IF ~IsNumber(b) THEN Outcome(FALSE, TRUE, breadcrumb)
    ELSE IF Abs(a.v - b.v) >= TOLERANCE
    THEN Outcome(FALSE, FALSE, Append(breadcrumb, Format("%r != %r", <<a, b>>)))
    ELSE Outcome(TRUE, FALSE, breadcrumb)

\* sorted(): numbers sort among numbers and strings among strings; any other list
\* of two or more (a str and a number, None, a sphere) raises TypeError
Sortable(items) ==
    \/ Len(items) <= 1
    \/ \A i \in DOMAIN items : IsNumber(items[i])
    \/ \A i \in DOMAIN items : items[i].ty = "str"

Letters == <<"a", "b">>
SortKey(x) ==
    IF IsNumber(x) THEN x.v ELSE CHOOSE i \in DOMAIN Letters : Letters[i] = x.s

RECURSIVE sorted(_)
sorted(items) ==
    IF Len(items) <= 1 THEN items
    ELSE LET rest == sorted(Tail(items))
             x == items[1]
             before == {i \in DOMAIN rest : SortKey(rest[i]) < SortKey(x)}
             n == Cardinality(before)
         IN SubSeq(rest, 1, n) \o <<x>> \o SubSeq(rest, n + 1, Len(rest))

RECURSIVE _compare(_, _, _)
RECURSIVE ListLoop_crumbsAll(_, _, _, _)
RECURSIVE ListLoop(_, _, _, _)
RECURSIVE DictLoop(_, _, _, _, _, _)

\* (mutant) the index is appended for every item, equal or not
ListLoop_crumbsAll(a, b, i, breadcrumb) ==
    IF i > Len(a.items) THEN Outcome(TRUE, FALSE, breadcrumb)
    ELSE LET r == _compare(a.items[i], b.items[i], breadcrumb)
         IN IF r.raised THEN r
            ELSE IF ~r.eq
            THEN Outcome(FALSE, FALSE, Append(r.breadcrumb, PyInt(i - 1)))
            ELSE ListLoop(a, b, i + 1, Append(r.breadcrumb, PyInt(i - 1)))

\* lines 68-73: for i, (aitem, bitem) in enumerate(zip(a, b)), from the i-th item on
ListLoop(a, b, i, breadcrumb) ==
    IF i > Len(a.items) THEN Outcome(TRUE, FALSE, breadcrumb)
    ELSE LET r == _compare(a.items[i], b.items[i], breadcrumb)
         IN IF r.raised THEN r
            ELSE IF ~r.eq
            THEN Outcome(FALSE, FALSE, Append(r.breadcrumb, PyInt(i - 1)))
            ELSE ListLoop(a, b, i + 1, r.breadcrumb)

\* lines 61-73
_compare_list(a, b, breadcrumb) ==
    LET c == _check_type(b, "list", breadcrumb)
    IN IF ~c.eq THEN c
       ELSE IF Len(a.items) # Len(b.items)
       THEN Outcome(FALSE, FALSE,
                    Append(breadcrumb,
                           Format("len neq (%s != %s): %s != %s",
                                  <<PyInt(Len(a.items)), PyInt(Len(b.items)), a, b>>)))
       ELSE ListLoop(a, b, 1, breadcrumb)

\* lines 47-52
_compare_set(a, b, breadcrumb) ==
    LET c == _check_type(b, "set", breadcrumb)
    IN IF ~c.eq THEN c
       ELSE IF ~Sortable(a.items) \/ ~Sortable(b.items)
       THEN Outcome(FALSE, TRUE, breadcrumb)
       ELSE _compare(PyList(sorted(a.items)), PyList(sorted(b.items)), breadcrumb)

\* lines 55-58
_compare_tuple(a, b, breadcrumb) ==
    LET c == _check_type(b, "tuple", breadcrumb)
    IN IF ~c.eq THEN c
       ELSE _compare(PyList(a.items), PyList(b.items), breadcrumb)

\* lines 84-91: for akey, bkey in zip(sorted_a_keys, sorted_b_keys), from the i-th on
DictLoop(a, b, akeys, bkeys, i, breadcrumb) ==
    IF i > Len(akeys) THEN Outcome(TRUE, FALSE, breadcrumb)
    ELSE LET aval == DictGet(a, akeys[i])
             bval == DictGet(b, bkeys[i])
             r == _compare(aval, bval, breadcrumb)
         IN IF r.raised THEN r
            ELSE IF ~r.eq
            THEN Outcome(FALSE, FALSE, Append(r.breadcrumb, akeys[i]))
            ELSE DictLoop(a, b, akeys, bkeys, i + 1, r.breadcrumb)

\* lines 76-91
_compare_dict(a, b, breadcrumb) ==
    LET c == _check_type(b, "dict", breadcrumb)
    IN IF ~c.eq THEN c
       ELSE IF ~Sortable(DictKeys(a)) \/ ~Sortable(DictKeys(b))
       THEN Outcome(FALSE, TRUE, breadcrumb)
       ELSE LET sorted_a_keys == sorted(DictKeys(a))
                sorted_b_keys == sorted(DictKeys(b))
                r == _compare(PyList(sorted_a_keys), PyList(sorted_b_keys), breadcrumb)
            IN IF r.raised \/ ~r.eq THEN r
               ELSE DictLoop(a, b, sorted_a_keys, sorted_b_keys, 1, r.breadcrumb)

\* lines 94-103 and 115-118: MAP.get(type(a), _compare_default)
_compare(a, b, breadcrumb) ==
    CASE a.ty \in {"int", "long", "float"} -> _compare_number(a, b, breadcrumb)
      [] a.ty = "set" -> _compare_set(a, b, breadcrumb)
      [] a.ty = "list" -> _compare_list(a, b, breadcrumb)
      [] a.ty = "tuple" -> _compare_tuple(a, b, breadcrumb)
      [] a.ty = "dict" -> _compare_dict(a, b, breadcrumb)
      [] OTHER -> _compare_default(a, b, breadcrumb)

\* lines 106-112
compare(a, b) == _compare(a, b, <<>>)

\* crumbs.reverse()
Reversed(q) == [i \in DOMAIN q |-> q[Len(q) + 1 - i]]

\* lines 143-148: what get_compound_diff returns when _compare does not raise
get_compound_diff(a, b) ==
    LET r == _compare(a, b, <<>>)
        crumbs == Reversed(r.breadcrumb)
    IN IF ~r.eq /\ crumbs = <<>> THEN <<a, b>> ELSE crumbs

\* ---- the caller: one pair of values, handed to compare and to get_compound_diff

NotCalled ==
    [compared |-> FALSE, eq |-> FALSE, raised |-> FALSE,
     diffed |-> FALSE, diff |-> <<>>, diff_raised |-> FALSE]

InitCmp ==
    /\ cmp_a \in Values
    /\ cmp_b \in Values
    /\ cmp_out = NotCalled
    /\ maxsize = None
    /\ typed = FALSE
    /\ InitDecorated
    /\ UtilIdle
    /\ budget = 0

\* compare(a, b)
CallCompare ==
    /\ ~cmp_out.compared
    /\ LET r == compare(cmp_a, cmp_b)
       IN cmp_out' = [cmp_out EXCEPT !.compared = TRUE, !.eq = r.eq /\ ~r.raised,
                                     !.raised = r.raised]
    /\ UNCHANGED <<cmp_a, cmp_b, lruVars, utilVars>>

\* get_compound_diff(a, b)
CallDiff ==
    /\ ~cmp_out.diffed
    /\ LET r == _compare(cmp_a, cmp_b, <<>>)
       IN cmp_out' = [cmp_out EXCEPT
                        !.diffed = TRUE,
                        !.diff_raised = r.raised,
                        !.diff = IF r.raised THEN <<>>
                                 ELSE get_compound_diff(cmp_a, cmp_b)]
    /\ UNCHANGED <<cmp_a, cmp_b, lruVars, utilVars>>

NextCmp ==
    \/ CallCompare
    \/ CallDiff

SpecCmp == InitCmp /\ [][NextCmp]_vars

\* ---- the claims on pyobjcomparer

Containers == {"list", "tuple", "set", "dict"}

\* both functions have been called on the pair
BothCalled == cmp_out.compared /\ cmp_out.diffed

RECURSIVE OneLeafDiffers(_, _)
OneLeafDiffers(x, y) ==
    IF IsNumber(x) /\ IsNumber(y) THEN Abs(x.v - y.v) >= TOLERANCE
    ELSE IF x.ty = "list" /\ y.ty = "list" /\ Len(x.items) = Len(y.items)
    THEN \E i \in DOMAIN x.items :
            /\ OneLeafDiffers(x.items[i], y.items[i])
            /\ \A j \in DOMAIN x.items : j # i => x.items[j] = y.items[j]
    ELSE IF x.ty = "dict" /\ y.ty = "dict" /\ DictKeys(x) = DictKeys(y)
    THEN \E i \in DOMAIN x.items :
            /\ OneLeafDiffers(x.items[i].items[2], y.items[i].items[2])
            /\ \A j \in DOMAIN x.items : j # i => x.items[j] = y.items[j]
    ELSE FALSE

\* the list indices and dict keys that lead from x to the leaf where y differs
RECURSIVE PathToLeaf(_, _)
PathToLeaf(x, y) ==
    IF x.ty = "list"
    THEN LET i == CHOOSE j \in DOMAIN x.items : x.items[j] # y.items[j]
         IN <<PyInt(i - 1)>> \o PathToLeaf(x.items[i], y.items[i])
    ELSE IF x.ty = "dict"
    THEN LET i == CHOOSE j \in DOMAIN x.items : x.items[j] # y.items[j]
         IN <<x.items[i].items[1]>> \o PathToLeaf(x.items[i].items[2], y.items[i].items[2])
    ELSE <<>>

\* C16: for two nested list/dict structures that differ at exactly one leaf,
\* get_compound_diff(a, b) is exactly the outer-to-inner sequence of list indices
\* and dict keys leading to that leaf, with no other element
DiffIsPathToLeaf ==
    (cmp_out.diffed /\ cmp_a.ty \in {"list", "dict"} /\ OneLeafDiffers(cmp_a, cmp_b)) =>
        /\ ~cmp_out.diff_raised
        /\ cmp_out.diff = PathToLeaf(cmp_a, cmp_b)

\* the inequality of a and b shows without descending into a container: a is no
\* container, or b is not of a's kind
Immediate(x, y) == x.ty \notin Containers \/ y.ty # x.ty

\* C17: when a and b are unequal and the inequality shows without descending into
\* any container (an object against a string, an object against a dict in either
\* order, two unequal objects), get_compound_diff(a, b) is the list [a, b]
ImmediateDiffIsPair ==
    (BothCalled /\ ~cmp_out.raised /\ ~cmp_out.eq
       /\ cmp_a.ty \notin {"int", "float"} /\ Immediate(cmp_a, cmp_b)) =>
        cmp_out.diff = <<cmp_a, cmp_b>>

\* C18: compare(a, b) returns a boolean and never raises, whatever the two values;
\* a number against a string, None, a list, a dict or an object is False
CompareNeverRaises ==
    cmp_out.compared =>
        /\ ~cmp_out.raised
        /\ (IsNumber(cmp_a) /\ ~IsNumber(cmp_b)) => ~cmp_out.eq

\* C19: two numbers, int or float in any combination, compare equal exactly when
\* abs(a - b) < TOLERANCE: 1.00000001 (here 1.00005) against 1.0 and 1.00 against 1
\* are equal, a difference of exactly TOLERANCE or more is not
NumbersWithinTolerance ==
    (cmp_out.compared /\ IsNumber(cmp_a) /\ IsNumber(cmp_b)) =>
        /\ ~cmp_out.raised
        /\ cmp_out.eq <=> (Abs(cmp_a.v - cmp_b.v) < TOLERANCE)
        /\ (cmp_a = PyFloat(One + 1) /\ cmp_b = PyFloat(One)) => cmp_out.eq
        /\ (cmp_a = PyFloat(One) /\ cmp_b = PyInt(1)) => cmp_out.eq
        /\ (cmp_a = PyFloat(One) /\ cmp_b = PyFloat(TOLERANCE)) => ~cmp_out.eq
        /\ (Abs(cmp_a.v - cmp_b.v) = TOLERANCE) => ~cmp_out.eq

\* a float and an int exactly TOLERANCE apart have been compared
ToleranceWitness ==
    /\ cmp_out.compared
    /\ cmp_a = PyFloat(TOLERANCE)
    /\ cmp_b = PyInt(0)
    /\ ~cmp_out.eq

\* C20: a list, tuple, set or dict is unequal to every value that is not of the
\* same container kind, the elements matching or not
ContainerKindStrict ==
    (cmp_out.compared /\ cmp_a.ty \in Containers /\ cmp_b.ty # cmp_a.ty) =>
        /\ ~cmp_out.raised
        /\ ~cmp_out.eq

\* a list and a tuple of the same two elements have been compared
KindWitness ==
    /\ cmp_out.compared
    /\ cmp_a.ty = "list" /\ cmp_b.ty = "tuple"
    /\ Len(cmp_a.items) = MaxLen
    /\ cmp_a.items = cmp_b.items
    /\ ~cmp_out.eq

\* ---- threadutils.memoize (threadutils.py, lines 328-371)

\* calls of the memoized function the threads may start
MaxMemoCalls == 3

\* what memoize can be handed as func: nothing, "def foo():" or "lambda a: None"
NoFunc == "None"
Funcs == {NoFunc, "noparams", "params"}

callable(func) == func # NoFunc

\* before memoize is called
NotMade == [func |-> NoFunc, useLock |-> FALSE, out |-> "not called"]

\* lines 343-345: any(inspect.getargspec(func_))
hasParameterless(func_) == func_ = "params"

\* (mutant) the check of lines 347-349 left out
memoize_unchecked(func, useLock) ==
    IF callable(func)
    THEN IF hasParameterless(func) THEN "ValueError"
         ELSE IF useLock THEN "AssertionError"
         ELSE "inner"
    ELSE "decorator"

\* lines 347-371, memoize(func, useLock) up to its return: the exception raised,
\* the unlocked wrapper (inner, lines 356-360) or the decorator awaiting func_
\* (inner, lines 363-370)
memoize(func, useLock) ==
    IF ~callable(func) /\ ~useLock THEN "AssertionError"
    ELSE IF callable(func)
    THEN IF hasParameterless(func) THEN "ValueError"
         ELSE IF useLock THEN "AssertionError"
         ELSE "inner"
    ELSE "decorator"

\* the wrappers that can be called: inner of line 356, inner2 of line 364
Wrappers == {"inner", "inner2"}

MemoAt(t, pc) == memo_pc[t] = pc

MemoGoto(t, pc) == memo_pc' = [memo_pc EXCEPT ![t] = pc]

\* nothing is decorated but a memoize wrapper
InitMemo ==
    /\ maxsize = None
    /\ typed = FALSE
    /\ InitDecorated
    /\ CmpIdle
    /\ RetryIdle
    /\ TreeIdle
    /\ TimerIdle
    /\ MemoIdle
    /\ budget = MaxMemoCalls

\* foo = memoize(func, useLock)
Memoize ==
    /\ memo_made = NotMade
    /\ \E func \in Funcs, useLock \in BOOLEAN :
         memo_made' = [func |-> func, useLock |-> useLock, out |-> memoize(func, useLock)]
    /\ UNCHANGED <<memo_cache, memo_lock, memo_pc, memo_val, memo_li>>
    /\ UNCHANGED <<lruVars, cmpVars, retryVars, treeVars, timerVars>>

\* @memoize(useLock=True) applied to the function below it: inner(func_), line 363
Decorate ==
    /\ memo_made.out = "decorator"
    /\ memo_made' = [memo_made EXCEPT !.out = "inner2"]
    /\ UNCHANGED <<memo_cache, memo_lock, memo_pc, memo_val, memo_li>>
    /\ UNCHANGED <<lruVars, cmpVars, retryVars, treeVars, timerVars>>

\* a thread calls the wrapper
MemoCall(t) ==
    /\ memo_made.out \in Wrappers
    /\ memo_pc[t] \in {"idle", "done", "raised"}
    /\ budget > 0
    /\ budget' = budget - 1
    /\ MemoGoto(t, "check")
    /\ memo_val' = [memo_val EXCEPT ![t] = None]
    /\ UNCHANGED <<memo_made, memo_cache, memo_lock, memo_li>>
    /\ UNCHANGED <<closureVars, cmpVars, retryVars, treeVars, timerVars>>

\* lines 357 and 365: "if not cache:" before any lock is taken
MemoCheck(t) ==
    /\ MemoAt(t, "check")
    /\ IF memo_cache # <<>> THEN MemoGoto(t, "return")
       ELSE IF memo_made.out = "inner2" THEN MemoGoto(t, "acquire")
       ELSE MemoGoto(t, "eval")
    /\ UNCHANGED <<memo_made, memo_cache, memo_lock, memo_val, memo_li>>
    /\ UNCHANGED <<lruVars, cmpVars, retryVars, treeVars, timerVars>>

\* line 366: "with lock:", a threading.Lock
MemoAcquire(t) ==
    /\ MemoAt(t, "acquire")
    /\ memo_lock = None
    /\ memo_lock' = t
    /\ MemoGoto(t, "recheck")
    /\ UNCHANGED <<memo_made, memo_cache, memo_val, memo_li>>
    /\ UNCHANGED <<lruVars, cmpVars, retryVars, treeVars, timerVars>>

\* (mutant) no second look at the cache once the lock is held
MemoRecheck_unchecked(t) ==
    /\ MemoAt(t, "recheck")
    /\ MemoGoto(t, "eval")
    /\ UNCHANGED <<memo_made, memo_cache, memo_lock, memo_val, memo_li>>
    /\ UNCHANGED <<lruVars, cmpVars, retryVars, treeVars, timerVars>>

\* line 367: "if not cache:" under the lock
MemoRecheck(t) ==
    /\ MemoAt(t, "recheck")
    /\ IF memo_cache = <<>> THEN MemoGoto(t, "eval") ELSE MemoGoto(t, "release")
    /\ UNCHANGED <<memo_made, memo_cache, memo_lock, memo_val, memo_li>>
    /\ UNCHANGED <<lruVars, cmpVars, retryVars, treeVars, timerVars>>

\* lines 358 and 368: func(*args, **kwargs) returns; the value carries the
\* ordinal of the evaluation that built it
MemoEvalReturns(t) ==
    /\ MemoAt(t, "eval")
    /\ memo_li' = [memo_li EXCEPT !.returned = @ + 1]
    /\ memo_val' = [memo_val EXCEPT ![t] = memo_li.returned + memo_li.raised + 1]
    /\ MemoGoto(t, "append")
    /\ UNCHANGED <<memo_made, memo_cache, memo_lock>>
    /\ UNCHANGED <<lruVars, cmpVars, retryVars, treeVars, timerVars>>

\* lines 358 and 368: func(*args, **kwargs) raises; "with lock:" gives the lock
\* back and the exception leaves the wrapper
MemoEvalRaises(t) ==
    /\ MemoAt(t, "eval")
    /\ memo_li' = [memo_li EXCEPT !.raised = @ + 1]
    /\ memo_lock' = IF memo_lock = t THEN None ELSE memo_lock
    /\ MemoGoto(t, "raised")
    /\ UNCHANGED <<memo_made, memo_cache, memo_val>>
    /\ UNCHANGED <<lruVars, cmpVars, retryVars, treeVars, timerVars>>

\* lines 358 and 368: cache.append(...)
MemoAppend(t) ==
    /\ MemoAt(t, "append")
    /\ memo_cache' = Append(memo_cache, memo_val[t])
    /\ IF memo_made.out = "inner2" THEN MemoGoto(t, "release") ELSE MemoGoto(t, "return")
    /\ UNCHANGED <<memo_made, memo_lock, memo_val, memo_li>>
    /\ UNCHANGED <<lruVars, cmpVars, retryVars, treeVars, timerVars>>

\* the end of the "with lock:" block
MemoRelease(t) ==
    /\ MemoAt(t, "release")
    /\ memo_lock' = None
    /\ MemoGoto(t, "return")
    /\ UNCHANGED <<memo_made, memo_cache, memo_val, memo_li>>
    /\ UNCHANGED <<lruVars, cmpVars, retryVars, treeVars, timerVars>>

\* lines 359 and 369: return cache[0]
MemoReturn(t) ==
    /\ MemoAt(t, "return")
    /\ memo_val' = [memo_val EXCEPT ![t] = memo_cache[1]]
    /\ MemoGoto(t, "done")
    /\ UNCHANGED <<memo_made, memo_cache, memo_lock, memo_li>>
    /\ UNCHANGED <<lruVars, cmpVars, retryVars, treeVars, timerVars>>

MemoStep(t) ==
    \/ MemoCall(t)
    \/ MemoCheck(t)
    \/ MemoAcquire(t)
    \/ MemoRecheck(t)
    \/ MemoEvalReturns(t)
    \/ MemoEvalRaises(t)
    \/ MemoAppend(t)
    \/ MemoRelease(t)
    \/ MemoReturn(t)

NextMemo ==
    \/ Memoize
    \/ Decorate
    \/ \E t \in Threads : MemoStep(t)

SpecMemo == InitMemo /\ [][NextMemo]_vars

\* ---- the claims on threadutils.memoize

\* C21: a function under memoize(useLock=True) is evaluated at most once to a
\* normal return in every interleaving of its callers, exactly once when no
\* evaluation raised and a call has returned, and every call that returned
\* returned the value of that one evaluation, which is cache[0].
LockedMemoizeOnce ==
    memo_made.out = "inner2" =>
        /\ memo_li.returned <= 1
        /\ Len(memo_cache) <= 1
        /\ \A t \in Threads :
             memo_pc[t] = "done" =>
                /\ memo_cache # <<>>
                /\ memo_val[t] = memo_cache[1]
                /\ memo_li.returned = 1
                /\ \A u \in Threads : memo_pc[u] = "done" => memo_val[u] = memo_val[t]

\* two first calls overlapped: one thread evaluated the body and returned, the
\* other had found the cache empty, waited for the lock and finds the value there
LockedMemoizeWitness ==
    /\ memo_made.out = "inner2"
    /\ memo_li.raised = 0
    /\ \E t, u \in Threads :
         /\ memo_pc[t] = "done"
         /\ memo_pc[u] = "recheck"
         /\ memo_cache # <<>>

\* C25: memoize() with no function and useLock not True raises at construction:
\* no wrapper comes back, so nothing is ever called or evaluated.
NoFuncNoLockRejected ==
    (memo_made # NotMade /\ memo_made.func = NoFunc /\ ~memo_made.useLock) =>
        /\ memo_made.out = "AssertionError"
        /\ memo_li = [returned |-> 0, raised |-> 0]
        /\ memo_cache = <<>>
        /\ \A t \in Threads : memo_pc[t] = "idle"

\* memoize() was called with neither and raised
NoFuncNoLockWitness ==
    /\ memo_made.func = NoFunc
    /\ ~memo_made.useLock
    /\ memo_made.out = "AssertionError"

\* ---- ioutils.retry (ioutils.py, lines 24-69)

\* the largest attempts handed to retry
MaxAttempts == 3

\* calls of the decorated function the caller may start
MaxRetryCalls == 3

\* lines 40-45: the checks of retry.__init__
retry__init__(attempts, wait, backoff) ==
    IF attempts < 1 \/ wait < 0 \/ backoff < 1 THEN "ValueError" ELSE "retry"

\* nothing is decorated but a retry function
InitRetry ==
    /\ maxsize = None
    /\ typed = FALSE
    /\ InitDecorated
    /\ CmpIdle
    /\ MemoIdle
    /\ TreeIdle
    /\ TimerIdle
    /\ RetryIdle
    /\ budget = MaxRetryCalls

\* retry(attempts, wait=wait, backoff=backoff): lines 38-50
Retry ==
    /\ retry_self.made = "not called"
    /\ \E attempts \in 0..MaxAttempts, wait \in 0..1, backoff \in 1..2 :
         retry_self' = [attempts |-> attempts, wait |-> wait, backoff |-> backoff,
                        made |-> retry__init__(attempts, wait, backoff)]
    /\ UNCHANGED <<attemptsLeft, currDelay, retry_pc, retry_res>>
    /\ UNCHANGED <<lruVars, cmpVars, memoVars, treeVars, timerVars>>

\* retry.__call__(func), lines 52-54: the decorator applied to a function
Retry__call__ ==
    /\ retry_self.made = "retry"
    /\ retry_self' = [retry_self EXCEPT !.made = "inner"]
    /\ attemptsLeft' = retry_self.attempts
    /\ currDelay' = retry_self.wait
    /\ UNCHANGED <<retry_pc, retry_res>>
    /\ UNCHANGED <<lruVars, cmpVars, memoVars, treeVars, timerVars>>

\* the caller calls the decorated function
RetryCall ==
    /\ retry_self.made = "inner"
    /\ retry_pc \in {"idle", "returned", "raised"}
    /\ budget > 0
    /\ budget' = budget - 1
    /\ retry_pc' = "inner"
    /\ retry_res' = <<>>
    /\ UNCHANGED <<retry_self, attemptsLeft, currDelay>>
    /\ UNCHANGED <<closureVars, cmpVars, memoVars, treeVars, timerVars>>

\* what one invocation of func can do: return, raise an exception that
\* excFilter matches, raise one it does not match
FuncOutcomes == {"returns", "filtered", "other"}

\* lines 58-61: attemptsLeft[0] == 1, the last attempt: whatever func does
\* leaves inner
RetryLast ==
    /\ retry_pc = "inner"
    /\ attemptsLeft = 1
    /\ \E o \in FuncOutcomes :
         /\ retry_res' = Append(retry_res, o)
         /\ retry_pc' = IF o = "returns" THEN "returned" ELSE "raised"
    /\ UNCHANGED <<retry_self, attemptsLeft, currDelay>>
    /\ UNCHANGED <<lruVars, cmpVars, memoVars, treeVars, timerVars>>

\* lines 62-69: attemptsLeft[0] -= 1, then func is tried; an exception that
\* excFilter matches is caught, the delay slept and multiplied, and inner calls
\* itself ("return inner(*args, **kwargs)")
RetryAttempt ==
    /\ retry_pc = "inner"
    /\ attemptsLeft # 1
    /\ attemptsLeft' = attemptsLeft - 1
    /\ \E o \in FuncOutcomes :
         /\ retry_res' = Append(retry_res, o)
         /\ retry_pc' = CASE o = "returns" -> "returned"
                          [] o = "other" -> "raised"
                          [] OTHER -> "inner"
         /\ currDelay' = IF o = "filtered" /\ currDelay # 0
                         THEN currDelay * retry_self.backoff ELSE currDelay
    /\ UNCHANGED retry_self
    /\ UNCHANGED <<lruVars, cmpVars, memoVars, treeVars, timerVars>>

NextRetry ==
    \/ Retry
    \/ Retry__call__
    \/ RetryCall
    \/ RetryLast
    \/ RetryAttempt

SpecRetry == InitRetry /\ [][NextRetry]_vars

\* ---- the claims on ioutils.retry

\* every invocation of func during the current call raised what excFilter matches
AllFiltered == \A i \in 1..Len(retry_res) : retry_res[i] = "filtered"

\* C22: a call of a function under retry(attempts=N) invokes the function at
\* most N times, and a call that ended with every attempt raising a matching
\* exception invoked it exactly N times and raised.
RetryInvokesAttempts ==
    retry_self.made = "inner" =>
        /\ Len(retry_res) <= retry_self.attempts
        /\ (retry_pc \in {"returned", "raised"} /\ retry_res # <<>> /\ AllFiltered) =>
              /\ Len(retry_res) = retry_self.attempts
              /\ retry_pc = "raised"

\* ---- itertoolsext.treeyield_breadthfirst (itertoolsext.py, lines 368-392)

\* the largest tree walked, in nodes
MaxNodes == 6

\* the start node
TreeRoot == 1

\* the children of node n when node i hangs under parent[i], in ascending order
ChildrenIn(parent, n) ==
    LET kids == {i \in DOMAIN parent : parent[i] = n}
    IN SetToSeq(kids)

\* createTree() for every shape: the trees of up to MaxNodes nodes, each as the
\* function node -> getchildren(node)
Trees ==
    UNION {
        { [node \in 1..n |-> ChildrenIn(parent, node)] :
            parent \in {q \in [2..n -> 1..n] : \A i \in 2..n : q[i] < i} } :
        n \in 1..MaxNodes }

RECURSIVE treeyield_breadthfirst(_, _, _), grandkids(_, _, _)

\* lines 388-391: for child in children: for grandkid in
\* treeyield_breadthfirst(child, getchildren): yield grandkid
grandkids(children, i, getchildren) ==
    IF i > Len(children) THEN <<>>
    ELSE treeyield_breadthfirst(children[i], getchildren, FALSE)
         \o grandkids(children, i + 1, getchildren)

\* lines 377-391: the whole sequence the generator yields: node itself when
\* yieldnode, each child as the first loop reaches it, then what the recursive
\* generators of the children yield, child after child.  (getchild only changes
\* how a child is fetched: range(getchildren(node)) and getchild(node, index).)
treeyield_breadthfirst(node, getchildren, yieldnode) ==
    LET children == getchildren[node]
    IN (IF yieldnode THEN <<node>> ELSE <<>>)
       \o children
       \o grandkids(children, 1, getchildren)

InitTree ==
    /\ maxsize = None
    /\ typed = FALSE
    /\ InitDecorated
    /\ CmpIdle
    /\ MemoIdle
    /\ RetryIdle
    /\ TimerIdle
    /\ tree_children \in Trees
    /\ tree_yieldnode \in BOOLEAN
    /\ tree_out = <<>>
    /\ budget = 0

\* next(generator): the consumer takes one more node
TreeNext ==
    /\ LET all == treeyield_breadthfirst(TreeRoot, tree_children, tree_yieldnode)
       IN /\ Len(tree_out) < Len(all)
          /\ tree_out' = Append(tree_out, all[Len(tree_out) + 1])
    /\ UNCHANGED <<tree_children, tree_yieldnode>>
    /\ UNCHANGED <<lruVars, cmpVars, memoVars, retryVars, timerVars>>

NextTree == TreeNext

SpecTree == InitTree /\ [][NextTree]_vars

\* ---- the claims on itertoolsext.treeyield_breadthfirst

RECURSIVE DepthBelow(_, _)
\* how many levels node n lies below the start node
DepthBelow(getchildren, n) ==
    IF n = TreeRoot THEN 0
    ELSE LET parent == CHOOSE q \in DOMAIN getchildren :
                          \E i \in 1..Len(getchildren[q]) : getchildren[q][i] = n
         IN 1 + DepthBelow(getchildren, parent)

\* C23: the nodes come out level by level: a node yielded earlier is never
\* deeper than one yielded later, and siblings keep the order of getchildren
\* (here ascending).
YieldsBreadthFirst ==
    \A i, j \in 1..Len(tree_out) :
        i < j =>
            /\ DepthBelow(tree_children, tree_out[i]) <= DepthBelow(tree_children, tree_out[j])
            /\ (DepthBelow(tree_children, tree_out[i]) = DepthBelow(tree_children, tree_out[j])
                /\ \E q \in DOMAIN tree_children :
                     \E a, b \in 1..Len(tree_children[q]) :
                         tree_children[q][a] = tree_out[i] /\ tree_children[q][b] = tree_out[j])
               => tree_out[i] < tree_out[j]

\* ---- threadutils.TimerExt (threadutils.py, lines 252-303)

\* TimerExt(interval, function): the interval, in clock ticks
Interval == 2

\* the clock stops here
MaxTime == 5

\* restart() and cancel() calls the threads may start
MaxTimerOps == 3

\* the timer's own thread, as an owner of self._lock
TimerThread == 0

InitTimer ==
    /\ maxsize = None
    /\ typed = FALSE
    /\ InitDecorated
    /\ CmpIdle
    /\ UtilIdle
    /\ budget = MaxTimerOps

TimerGoto(pc) == run_pc' = pc

CallerGoto(t, pc) == caller_pc' = [caller_pc EXCEPT ![t] = pc]

\* a caller is between calls
CallerFree(t) == caller_pc[t] \in {"idle", "returned", "raised"}

\* time passes
Tick ==
    /\ now < MaxTime
    /\ now' = now + 1
    /\ UNCHANGED <<finished, _restartRequested, _lock, run_pc, deadline, caller_pc, timer_obs>>
    /\ UNCHANGED <<lruVars, cmpVars, memoVars, retryVars, treeVars>>

\* t.start(): the timer thread enters run()
TimerStart ==
    /\ run_pc = "initial"
    /\ TimerGoto("wait")
    /\ timer_obs' = [timer_obs EXCEPT !.started_at = now]
    /\ UNCHANGED <<finished, _restartRequested, _lock, deadline, now, caller_pc>>
    /\ UNCHANGED <<lruVars, cmpVars, memoVars, retryVars, treeVars>>

\* (mutant) the wait goes on to the deadline it had
Deadline_kept(t) == IF deadline = 0 THEN t + Interval ELSE deadline

\* finished.wait(self.interval) entered at time t times out at t + interval
Deadline(t) == t + Interval

\* line 290: self.finished.wait(self.interval) is entered
RunWait ==
    /\ run_pc = "wait"
    /\ deadline' = Deadline(now)
    /\ TimerGoto("waiting")
    /\ UNCHANGED <<finished, _restartRequested, _lock, now, caller_pc, timer_obs>>
    /\ UNCHANGED <<lruVars, cmpVars, memoVars, retryVars, treeVars>>

\* line 290: the wait ends, the flag being set or the interval over
RunWake ==
    /\ run_pc = "waiting"
    /\ finished \/ now >= deadline
    /\ TimerGoto("acquire")
    /\ UNCHANGED <<finished, _restartRequested, _lock, deadline, now, caller_pc, timer_obs>>
    /\ UNCHANGED <<lruVars, cmpVars, memoVars, retryVars, treeVars>>

\* line 291: with self._lock
RunAcquire ==
    /\ run_pc = "acquire"
    /\ _lock = None
    /\ _lock' = TimerThread
    /\ TimerGoto("check")
    /\ UNCHANGED <<finished, _restartRequested, deadline, now, caller_pc, timer_obs>>
    /\ UNCHANGED <<lruVars, cmpVars, memoVars, retryVars, treeVars>>

\* lines 293-298: timedOut = not self.finished.isSet(); timed out, the flag is
\* set and the block left towards the function; else cancelled = not
\* self._restartRequested, and a cancelled run returns
RunCheck ==
    /\ run_pc = "check"
    /\ IF ~finished
       THEN /\ finished' = TRUE
            /\ _lock' = None
            /\ TimerGoto("fire")
       ELSE IF ~_restartRequested
       THEN /\ _lock' = None
            /\ TimerGoto("returned")
            /\ UNCHANGED finished
       ELSE /\ TimerGoto("clear")
            /\ UNCHANGED <<finished, _lock>>
    /\ UNCHANGED <<_restartRequested, deadline, now, caller_pc, timer_obs>>
    /\ UNCHANGED <<lruVars, cmpVars, memoVars, retryVars, treeVars>>

\* line 299: self.finished.clear()
RunClear ==
    /\ run_pc = "clear"
    /\ finished' = FALSE
    /\ TimerGoto("unflag")
    /\ UNCHANGED <<_restartRequested, _lock, deadline, now, caller_pc, timer_obs>>
    /\ UNCHANGED <<lruVars, cmpVars, memoVars, retryVars, treeVars>>

\* line 300: self._restartRequested = False; the block ends and the loop goes
\* back to the wait
RunUnflag ==
    /\ run_pc = "unflag"
    /\ _restartRequested' = FALSE
    /\ _lock' = None
    /\ TimerGoto("wait")
    /\ UNCHANGED <<finished, deadline, now, caller_pc, timer_obs>>
    /\ UNCHANGED <<lruVars, cmpVars, memoVars, retryVars, treeVars>>

\* lines 302-303: self.function(*self.args, **self.kwargs); return
RunFire ==
    /\ run_pc = "fire"
    /\ timer_obs' = [timer_obs EXCEPT !.fired = @ + 1, !.fired_at = now]
    /\ TimerGoto("returned")
    /\ UNCHANGED <<finished, _restartRequested, _lock, deadline, now, caller_pc>>
    /\ UNCHANGED <<lruVars, cmpVars, memoVars, retryVars, treeVars>>

\* a thread calls t.restart()
Restart(t) ==
    /\ CallerFree(t)
    /\ budget > 0
    /\ budget' = budget - 1
    /\ CallerGoto(t, "r_acquire")
    /\ UNCHANGED <<finished, _restartRequested, _lock, run_pc, deadline, now, timer_obs>>
    /\ UNCHANGED <<closureVars, cmpVars, memoVars, retryVars, treeVars>>

\* line 274: with self._lock
RestartAcquire(t) ==
    /\ caller_pc[t] = "r_acquire"
    /\ _lock = None
    /\ _lock' = t
    /\ CallerGoto(t, "r_check")
    /\ UNCHANGED <<finished, _restartRequested, run_pc, deadline, now, timer_obs>>
    /\ UNCHANGED <<lruVars, cmpVars, memoVars, retryVars, treeVars>>

\* lines 276-280: a restart that is already pending returns at once; a timer
\* whose flag is set raises RuntimeError; both leave the block
RestartCheck(t) ==
    /\ caller_pc[t] = "r_check"
    /\ IF _restartRequested
       THEN /\ _lock' = None
            /\ CallerGoto(t, "returned")
            /\ timer_obs' = [timer_obs EXCEPT !.restart_at = now]
       ELSE IF finished
       THEN /\ _lock' = None
            /\ CallerGoto(t, "raised")
            /\ timer_obs' = [timer_obs EXCEPT !.raised = @ + 1]
       ELSE /\ CallerGoto(t, "r_set")
            /\ UNCHANGED <<_lock, timer_obs>>
    /\ UNCHANGED <<finished, _restartRequested, run_pc, deadline, now>>
    /\ UNCHANGED <<lruVars, cmpVars, memoVars, retryVars, treeVars>>

\* lines 281-283: self._restartRequested = True; self.finished.set(), which
\* wakes the timer thread; the block ends
RestartSet(t) ==
    /\ caller_pc[t] = "r_set"
    /\ _restartRequested' = TRUE
    /\ finished' = TRUE
    /\ _lock' = None
    /\ CallerGoto(t, "returned")
    /\ timer_obs' = [timer_obs EXCEPT !.restart_at = now]
    /\ UNCHANGED <<run_pc, deadline, now>>
    /\ UNCHANGED <<lruVars, cmpVars, memoVars, retryVars, treeVars>>

\* no restart is under way: none is requested and no restart() call is past its
\* checks
NoRestartPending ==
    /\ ~_restartRequested
    /\ \A t \in Threads : caller_pc[t] # "r_set"

\* the timer thread is in run() and has not gone for the function
NotYetFiring == run_pc \notin {"initial", "fire", "returned"}

\* a thread calls t.cancel(): threading._Timer.cancel is self.finished.set(),
\* without the lock
Cancel(t) ==
    /\ CallerFree(t)
    /\ budget > 0
    /\ budget' = budget - 1
    /\ finished' = TRUE
    /\ CallerGoto(t, "returned")
    /\ timer_obs' = [timer_obs EXCEPT
                       !.cancelled = TRUE,
                       !.cancel_live = @ \/ NotYetFiring,
                       !.cancel_clean = @ \/ NoRestartPending]
    /\ UNCHANGED <<_restartRequested, _lock, run_pc, deadline, now>>
    /\ UNCHANGED <<closureVars, cmpVars, memoVars, retryVars, treeVars>>

TimerRun ==
    \/ TimerStart
    \/ RunWait
    \/ RunWake
    \/ RunAcquire
    \/ RunCheck
    \/ RunClear
    \/ RunUnflag
    \/ RunFire

TimerCaller(t) ==
    \/ Restart(t)
    \/ RestartAcquire(t)
    \/ RestartCheck(t)
    \/ RestartSet(t)
    \/ Cancel(t)

NextTimer ==
    \/ Tick
    \/ TimerRun
    \/ \E t \in Threads : TimerCaller(t)

SpecTimer == InitTimer /\ [][NextTimer]_vars

\* ---- the claims on threadutils.TimerExt

\* the timer has finished: the function has fired, or cancel() was called while
\* no restart was pending
TimerFinished == timer_obs.fired >= 1 \/ timer_obs.cancel_clean

\* the function fires at most once, and not before a full interval after the
\* start and after the latest restart() that did not raise
FiresAfterFullInterval ==
    /\ timer_obs.fired <= 1
    /\ timer_obs.fired = 1 =>
          /\ timer_obs.fired_at - timer_obs.started_at >= Interval
          /\ timer_obs.restart_at # None =>
                timer_obs.fired_at - timer_obs.restart_at >= Interval

\* a restart() that decides on a finished timer raises and leaves the timer as
\* it was; one that decides on a timer never cancelled, whose thread has not
\* found the interval over, does not raise
RestartDecides ==
    \A t \in Threads :
        (caller_pc[t] = "r_check" /\ caller_pc'[t] # "r_check") =>
            /\ TimerFinished =>
                  /\ caller_pc'[t] = "raised"
                  /\ UNCHANGED <<finished, _restartRequested, run_pc, deadline>>
            /\ (~timer_obs.cancelled /\ run_pc \notin {"fire", "returned"}) =>
                  caller_pc'[t] # "raised"

\* C24: restart() on a timer that has not finished makes the function wait a
\* full interval from that restart, the function fires at most once, and
\* restart() on a finished timer (fired, or cancelled with no restart pending)
\* raises RuntimeError and changes nothing of the timer.
RestartResetsOrRaises == []FiresAfterFullInterval /\ [][RestartDecides]_vars

\* a restart() some ticks after the start put the firing off, the function has
\* fired, and a later restart() raised
RestartWitness ==
    /\ timer_obs.fired = 1
    /\ timer_obs.restart_at # None
    /\ timer_obs.restart_at > timer_obs.started_at
    /\ timer_obs.fired_at > timer_obs.started_at + Interval
    /\ timer_obs.raised >= 1

\* C30: after a cancel() on a started timer whose thread has not yet gone for
\* the function, the function never fires.
CancelPreventsFiring == timer_obs.cancel_live => timer_obs.fired = 0

\* ---- the claims on lru_cache under concurrent use

\* a step that changes the entries, the recency list or the counters is taken
\* by the thread that holds the lock
MutatesUnderLock ==
    (cache' # cache \/ stats' # stats \/ links' # links \/ nonlocal_root' # nonlocal_root) =>
        \E t \in Threads : lock.owner = t /\ stack'[t] # stack[t]

\* with every call ended and no cache_clear() so far, the counters add up to the
\* calls that returned
NoCountLost ==
    ((\A t \in Threads : Idle(t)) /\ LastClear = 0) =>
        stats.HITS + stats.MISSES = Cardinality({i \in DOMAIN hist : IsCall(hist[i]) /\ hist[i].ok})

\* C26: for maxsize None, 0 and positive alike, the entries, the recency list
\* and the counters only change in steps of the thread holding the lock, and no
\* counter update is lost.
AllMutationsLocked == []NoCountLost /\ [][MutatesUnderLock]_vars

\* thread t ends a bounded wrapper call in the second "with lock:" block with
\* its key already in the dict
PublishesSecond(t) ==
    /\ maxsize > 0
    /\ At(t, {"b_pub", "b_pub2"})
    /\ Top(t).key \in DOMAIN cache
    /\ Len(hist') = Len(hist) + 1
    /\ hist'[Len(hist')].t = t

\* C27: bounded: a caller that computed a result and then finds its key in the
\* dict leaves the dict, the stored result and the recency list as they are
\* (nothing is added, moved or evicted), adds one to misses and nothing to
\* hits, and returns the result it computed itself.
LateInsertionDiscarded ==
    [][\A t \in Threads :
          PublishesSecond(t) =>
             /\ cache' = cache
             /\ links' = links
             /\ nonlocal_root' = nonlocal_root
             /\ stats' = [stats EXCEPT !.MISSES = @ + 1]
             /\ hist'[Len(hist')].ok
             /\ hist'[Len(hist')].ret = user_function(Top(t).key, t)]_vars

\* two threads missed on the same key; the second to publish returned its own
\* result while the dict holds the result of the first
LateInsertionWitness ==
    /\ maxsize > 0
    /\ \E i, j \in DOMAIN hist :
         /\ i < j
         /\ IsCall(hist[i]) /\ IsCall(hist[j])
         /\ hist[i].t # hist[j].t
         /\ hist[i].key = hist[j].key
         /\ hist[i].ran /\ hist[j].ran /\ hist[i].ok /\ hist[j].ok
         /\ hist[j].cached
         /\ hist[j].cur = hist[i].ret
         /\ hist[j].ret # hist[i].ret
         /\ hist[j].m1 = 2 /\ hist[j].h1 = 0 /\ hist[j].s1 = 1

\* the links on the circle that starts at the root, found by following NEXT
RECURSIVE Circle(_, _)
Circle(seen, i) ==
    IF i \in seen \/ i \notin DOMAIN links THEN seen
    ELSE Circle(seen \cup {i}, links[i].NEXT)

\* the recency structure as the bounded wrapper keeps it
WellFormedList ==
    LET root == nonlocal_root
        ring == Circle({}, root)
    IN /\ \A i \in ring :
            /\ links[i].NEXT \in ring /\ links[i].PREV \in ring
            /\ links[links[i].NEXT].PREV = i
            /\ links[links[i].PREV].NEXT = i
       /\ links[root].KEY = None
       /\ \A i \in ring \ {root} : links[i].KEY \in DOMAIN cache
       /\ \A i, j \in ring \ {root} : links[i].KEY = links[j].KEY => i = j
       /\ \A k \in DOMAIN cache :
            /\ cache[k] \in ring \ {root}
            /\ links[cache[k]].KEY = k

\* C29: bounded: whenever no thread holds the lock, the circular list is
\* doubly linked, the root carries no key, the other links carry exactly the
\* keys of the dict, once each, and the dict maps every key to its link.
ListWellFormedWhenUnlocked ==
    (maxsize > 0 /\ lock.owner = None) => WellFormedList

\* ---- the claim on pyobjcomparer's dict keys

\* the keys of dict d as the dict tells them apart (1 and 1.0 are one key)
KeySet(d) == {DictKey(DictKeys(d)[i]) : i \in 1..Len(DictKeys(d))}

\* the value dict d holds under the key that equals k
ValueUnder(d, k) ==
    LET i == CHOOSE j \in 1..Len(DictKeys(d)) : DictKey(DictKeys(d)[j]) = DictKey(k)
    IN DictGet(d, DictKeys(d)[i])

\* C28: two dicts compare equal only when they have exactly the same keys,
\* numeric keys within TOLERANCE of each other counting as different keys; with
\* the same keys, they compare equal exactly when the values under every key do.
DictKeysMatchExactly ==
    (cmp_a.ty = "dict" /\ cmp_b.ty = "dict" /\ cmp_out.compared /\ ~cmp_out.raised) =>
        /\ cmp_out.eq => KeySet(cmp_a) = KeySet(cmp_b)
        /\ KeySet(cmp_a) = KeySet(cmp_b) =>
              (cmp_out.eq <=>
                 \A i \in 1..Len(DictKeys(cmp_a)) :
                    LET k == DictKeys(cmp_a)[i]
                        r == compare(DictGet(cmp_a, k), ValueUnder(cmp_b, k))
                    IN r.eq /\ ~r.raised)
====
